---------------------------- MODULE Spec2Model ----------------------------
(***************************************************************************)
(* A model of dycg: Hardware / Buffer / Array, the Graph with its lazy     *)
(* push-down evaluator, Node arithmetic and the reverse-mode grad().       *)
(*                                                                         *)
(* Step ids are 0-based as in the source; the step with id i is            *)
(* steps[i + 1].  An Option<T> is a sequence of length 0 (None) or 1       *)
(* (Some).  f32 values are exact rationals in sign/magnitude form with the *)
(* IEEE-754 special values (signed zero, infinities, NaN); rounding to a   *)
(* 24 bit mantissa and overflow are not modelled.                          *)
(***************************************************************************)
EXTENDS Integers, Sequences, FiniteSets, TLC

(***************************************************************************)
(* Bounds of the model.                                                    *)
(***************************************************************************)
\* Number of Node constructor / overload / add_step calls of a behaviour
\* that only builds and evaluates, or only builds and differentiates.
MaxBuild == 3
\* The same number for a behaviour that builds, evaluates and differentiates.
MaxBuildMixed == 2
\* Number of grad() calls in one behaviour.
MaxGrad == 1
\* Number of calculate() calls in one behaviour.
MaxCalc == 2
\* Length of the list x handed to grad(), without and with calculate calls.
MaxXs == 2
MaxXsMixed == 1
\* Number of successive grad() calls, and of calculate() calls, of a
\* behaviour that differentiates repeatedly.
MaxGradHigher == 4
MaxCalcHigher == 1
\* Number of steps of the second Graph, and of operations attempted on Nodes
\* of different Graphs.
MaxOther == 2
MaxCross == 2
\* Number of Array API and raw memory calls, of constructions and of
\* calculate calls in a behaviour that ends by dropping everything.
MaxOps == 3
MaxOpsMem == 3
MaxOpsArrays == 4
\* Shape::new: the longest dims vector, standing for MAX_NUM_DIMENSIONS.
MaxDims == 3
\* Borrow scripts: the forward steps of a calculate, the steps a grad visits
\* and the overloads of one gradient builder with its integration.
MaxPerforms == 2
\* Overwrites of a returned Array by the user.
MaxOverwrites == 1
\* Constructions and calculate calls under fairness.
MaxBuildFair == 3
MaxCalcFair == 1
MaxVisits == 2
MaxOverloads == 3
MaxBuildMem == 2
MaxCalcMem == 1

\* The Hardware instances of a behaviour.
HW == {1, 2}

(***************************************************************************)
(* f32 values.                                                             *)
(***************************************************************************)
RECURSIVE GCD(_, _)
GCD(a, b) == IF b = 0 THEN a ELSE GCD(b, a % b)

\* The value s * n / d in lowest terms; n/0 is an infinity, 0/0 is NaN.
Norm(s, n, d) ==
    IF d = 0
    THEN IF n = 0 THEN [s |-> 1, n |-> 0, d |-> 0] ELSE [s |-> s, n |-> 1, d |-> 0]
    ELSE LET g == GCD(n, d) IN [s |-> s, n |-> n \div g, d |-> d \div g]

F32(i) == IF i < 0 THEN Norm(-1, -i, 1) ELSE Norm(1, i, 1)
IsNaN(x) == x.n = 0 /\ x.d = 0
IsInf(x) == x.n = 1 /\ x.d = 0
IsFinite(x) == x.d # 0
IsZero(x) == x.n = 0 /\ x.d # 0

\* IEEE equality of two f32: -0 == +0, and NaN equals nothing.
F32Eq(x, y) ==
    /\ ~IsNaN(x)
    /\ ~IsNaN(y)
    /\ \/ x = y
       \/ IsZero(x) /\ IsZero(y)

F32Neg(x) == IF IsNaN(x) THEN x ELSE [x EXCEPT !.s = -x.s]

F32Add(x, y) ==
    IF IsNaN(x) \/ IsNaN(y) THEN Norm(1, 0, 0)
    ELSE IF IsInf(x) /\ IsInf(y) THEN (IF x.s = y.s THEN x ELSE Norm(1, 0, 0))
    ELSE IF IsInf(x) THEN x
    ELSE IF IsInf(y) THEN y
    ELSE LET num == x.s * x.n * y.d + y.s * y.n * x.d
             den == x.d * y.d
         IN  IF num = 0 THEN Norm(IF x.s = y.s THEN x.s ELSE 1, 0, 1)
             ELSE IF num < 0 THEN Norm(-1, -num, den)
             ELSE Norm(1, num, den)

F32Sub(x, y) == F32Add(x, F32Neg(y))

F32Mul(x, y) == Norm(x.s * y.s, x.n * y.n, x.d * y.d)

F32Div(x, y) == Norm(x.s * y.s, x.n * y.d, x.d * y.n)

(***************************************************************************)
(* Shape.                                                                  *)
(***************************************************************************)
SizeOfF32 == 4

ScalarShape == << >>

RECURSIVE Product(_)
Product(dims) == IF dims = << >> THEN 1 ELSE Head(dims) * Product(Tail(dims))

num_elements(shape) == Product(shape)

memory_size(shape) == num_elements(shape) * SizeOfF32

check_is_scalar(shape) == Len(shape) = 0

\* Shape::elementwise: Ok(self) iff both shapes are equal.
elementwise(self, other) ==
    IF self = other
    THEN [ok |-> TRUE, err |-> "", shape |-> self]
    ELSE [ok |-> FALSE, err |-> "InvalidShape", shape |-> << >>]

(***************************************************************************)
(* Hardware: the registry of supplied (handle, size) pairs and the device  *)
(* memory.  A hardware state hs is [supplied, memory]; supplied[hw] is the *)
(* registry of hardware hw, memory maps every live handle to its contents. *)
(***************************************************************************)
FreshHandle(hs) ==
    CHOOSE h \in 1..(Cardinality(DOMAIN hs.memory) + 1) :
        /\ h \notin DOMAIN hs.memory
        /\ \A k \in 1..(h - 1) : k \in DOMAIN hs.memory

\* An allocation that records memory of every size, zero included.
allocate_memory_records_all(hs, hw, size) ==
    LET handle == FreshHandle(hs) IN
    [hs |-> [supplied |-> [hs.supplied EXCEPT ![hw] = @ \cup {<<handle, size>>}],
             memory |-> hs.memory @@ (handle :> << >>)],
     handle |-> handle]

\* CpuHardware::allocate_memory: the new memory is uninitialised.
allocate_memory(hs, hw, size) ==
    LET handle == FreshHandle(hs) IN
    [hs |-> [supplied |-> IF size > 0
                          THEN [hs.supplied EXCEPT ![hw] = @ \cup {<<handle, size>>}]
                          ELSE hs.supplied,
             memory |-> hs.memory @@ (handle :> << >>)],
     handle |-> handle]

\* A deallocation that does not look the pair up in the registry.
deallocate_memory_unchecked(hs, hw, handle, size) ==
    [ok |-> TRUE,
     hs |-> [supplied |-> [hs.supplied EXCEPT ![hw] = @ \ {<<handle, size>>}],
             memory |-> [h \in DOMAIN hs.memory \ {handle} |-> hs.memory[h]]]]

\* CpuHardware::deallocate_memory: panics when the pair was not supplied.
deallocate_memory(hs, hw, handle, size) ==
    IF size > 0 /\ <<handle, size>> \notin hs.supplied[hw]
    THEN [ok |-> FALSE, hs |-> hs]
    ELSE [ok |-> TRUE,
          hs |-> [supplied |-> [hs.supplied EXCEPT ![hw] = @ \ {<<handle, size>>}],
                  memory |-> [h \in DOMAIN hs.memory \ {handle} |-> hs.memory[h]]]]

\* Drop for CpuHardware: when the registry is not empty, every block in it
\* is released and the drop panics with the number of blocks it found.
hardware_drop(hs, hw) ==
    [panic |-> Cardinality(hs.supplied[hw]) > 0,
     num_leaked |-> Cardinality(hs.supplied[hw]),
     hs |-> [supplied |-> [hs.supplied EXCEPT ![hw] = {}],
             memory |-> [h \in DOMAIN hs.memory \ {p[1] : p \in hs.supplied[hw]} |->
                            hs.memory[h]]]]

\* copy_host_to_hardware / copy_hardware_to_hardware: dest receives the data.
write_memory(hs, handle, data) ==
    [hs EXCEPT !.memory = [h \in DOMAIN hs.memory |->
                              IF h = handle THEN data ELSE hs.memory[h]]]

(***************************************************************************)
(* Buffer and Array.  An Array is [shape, buffer], a Buffer is             *)
(* [hardware, size, handle].                                               *)
(***************************************************************************)
\* Buffer::raw
BufferRaw(hs, hw, size) ==
    LET a == allocate_memory(hs, hw, size) IN
    [hs |-> a.hs, buffer |-> [hardware |-> hw, size |-> size, handle |-> a.handle]]

\* A Buffer without a Drop: the memory is never given back.
BufferDropNothing(hs, buffer) == [ok |-> TRUE, hs |-> hs]

\* Drop for Buffer
BufferDrop(hs, buffer) ==
    deallocate_memory(hs, buffer.hardware, buffer.handle, buffer.size)

is_colocated(self, other) == self.hardware = other.hardware

\* Array::raw
ArrayRaw(hs, hw, shape) ==
    LET b == BufferRaw(hs, hw, memory_size(shape)) IN
    [hs |-> b.hs, array |-> [shape |-> shape, buffer |-> b.buffer]]

\* The contents of an Array as get_values_f32 reads them.
get_values_f32(hs, array) == hs.memory[array.buffer.handle]

\* Array::scalar_f32
scalar_f32(hs, hw, value) ==
    LET r == ArrayRaw(hs, hw, ScalarShape) IN
    [hs |-> write_memory(r.hs, r.array.buffer.handle, <<value>>), array |-> r.array]

\* A set_values_f32 that copies whatever it is given.
set_values_f32_unchecked(hs, array, values) ==
    [ok |-> TRUE, err |-> "", hs |-> write_memory(hs, array.buffer.handle, values)]

\* Array::set_values_f32
set_values_f32(hs, array, values) ==
    IF Len(values) # num_elements(array.shape)
    THEN [ok |-> FALSE, err |-> "InvalidLength", hs |-> hs]
    ELSE [ok |-> TRUE, err |-> "", hs |-> write_memory(hs, array.buffer.handle, values)]

\* Array::fill_f32
fill_f32(hs, hw, shape, value) ==
    LET r == ArrayRaw(hs, hw, shape) IN
    [hs |-> write_memory(r.hs, r.array.buffer.handle,
                         [i \in 1..num_elements(shape) |-> value]),
     array |-> r.array]

\* A clone that shares the Buffer of the original instead of copying it.
ArrayCloneShallow(hs, self) == [hs |-> hs, array |-> self]

\* Clone for Array: a new Buffer on the same Hardware, then a device copy.
ArrayClone(hs, self) ==
    LET r == ArrayRaw(hs, self.buffer.hardware, self.shape) IN
    [hs |-> write_memory(r.hs, r.array.buffer.handle, get_values_f32(hs, self)),
     array |-> r.array]

\* Drop for Array (drops its Buffer).
ArrayDrop(hs, array) == BufferDrop(hs, array.buffer)

NoArray == [shape |-> << >>, buffer |-> [hardware |-> 0, size |-> 0, handle |-> 0]]

\* Array::constant_f32: when set_values_f32 fails, the `?` returns its error
\* and the Array that was made is dropped.
constant_f32(hs, hw, shape, values) ==
    LET r == ArrayRaw(hs, hw, shape)
        v == set_values_f32(r.hs, r.array, values)
    IN  IF v.ok
        THEN [ok |-> TRUE, err |-> "", hs |-> v.hs, array |-> r.array]
        ELSE [ok |-> FALSE, err |-> v.err, hs |-> ArrayDrop(v.hs, r.array).hs,
              array |-> NoArray]

\* Array::elementwise_neg_f32
elementwise_neg_f32(hs, self) ==
    LET r == ArrayRaw(hs, self.buffer.hardware, self.shape)
        src == get_values_f32(hs, self)
    IN  [ok |-> TRUE, err |-> "",
         hs |-> write_memory(r.hs, r.array.buffer.handle,
                             [i \in 1..num_elements(self.shape) |-> F32Neg(src[i])]),
         array |-> r.array]

\* The kernel of a binary elementwise operation.
Kernel(name, x, y) ==
    CASE name = "Add" -> F32Add(x, y)
      [] name = "Sub" -> F32Sub(x, y)
      [] name = "Mul" -> F32Mul(x, y)
      [] name = "Div" -> F32Div(x, y)

\* A binary operation that makes its output before it checks its operands,
\* and keeps the output's memory when a check fails.
elementwise_binary_f32_allocates_first(hs, name, self, other) ==
    LET r == ArrayRaw(hs, self.buffer.hardware, self.shape) IN
    IF ~is_colocated(self.buffer, other.buffer)
    THEN [ok |-> FALSE, err |-> "InvalidHardware", hs |-> r.hs, array |-> NoArray]
    ELSE IF ~elementwise(self.shape, other.shape).ok
         THEN [ok |-> FALSE, err |-> "InvalidShape", hs |-> r.hs, array |-> NoArray]
         ELSE [ok |-> TRUE, err |-> "",
               hs |-> write_memory(r.hs, r.array.buffer.handle,
                          [i \in 1..num_elements(self.shape) |->
                              Kernel(name, get_values_f32(hs, self)[i],
                                     get_values_f32(hs, other)[i])]),
               array |-> r.array]

\* Array::elementwise_{add,sub,mul,div}_f32
elementwise_binary_f32(hs, name, self, other) ==
    IF ~is_colocated(self.buffer, other.buffer)
    THEN [ok |-> FALSE, err |-> "InvalidHardware", hs |-> hs, array |-> NoArray]
    ELSE LET output_shape == elementwise(self.shape, other.shape) IN
         IF ~output_shape.ok
         THEN [ok |-> FALSE, err |-> "InvalidShape", hs |-> hs, array |-> NoArray]
         ELSE LET r == ArrayRaw(hs, self.buffer.hardware, output_shape.shape)
                  lhs == get_values_f32(hs, self)
                  rhs == get_values_f32(hs, other)
              IN  [ok |-> TRUE, err |-> "",
                   hs |-> write_memory(r.hs, r.array.buffer.handle,
                              [i \in 1..num_elements(output_shape.shape) |->
                                  Kernel(name, lhs[i], rhs[i])]),
                   array |-> r.array]

(***************************************************************************)
(* Operators.  An operator is [name, hardware, shape, value, array]:       *)
(* Constant owns an Array (array = <<a>>), Fill stores hardware, shape and *)
(* value, the arithmetic operators store nothing.                          *)
(***************************************************************************)
PlainOp(name) ==
    [name |-> name, hardware |-> 0, shape |-> << >>, value |-> F32(0), array |-> << >>]

ConstantOp(array) == [PlainOp("Constant") EXCEPT !.array = <<array>>]

FillOp(hw, shape, value) ==
    [PlainOp("Fill") EXCEPT !.hardware = hw, !.shape = shape, !.value = value]

BinaryNames == {"Add", "Sub", "Mul", "Div"}

input_size(operator) ==
    CASE operator.name \in {"Constant", "Fill"} -> 0
      [] operator.name = "Neg" -> 1
      [] operator.name \in BinaryNames -> 2

output_size(operator) == 1

\* A forward computation that reads its two operands in the wrong order.
perform_swapped(hs, operator, inputs) ==
    IF operator.name \in BinaryNames
    THEN elementwise_binary_f32(hs, operator.name, inputs[2], inputs[1])
    ELSE IF operator.name = "Neg" THEN elementwise_neg_f32(hs, inputs[1])
    ELSE IF operator.name = "Fill"
    THEN LET f == fill_f32(hs, operator.hardware, operator.shape, operator.value)
         IN  [ok |-> TRUE, err |-> "", hs |-> f.hs, array |-> f.array]
    ELSE LET c == ArrayClone(hs, operator.array[1])
         IN  [ok |-> TRUE, err |-> "", hs |-> c.hs, array |-> c.array]

\* Operator::perform: the forward computation on the input Arrays.
perform(hs, operator, inputs) ==
    CASE operator.name = "Constant" ->
            LET c == ArrayClone(hs, operator.array[1])
            IN  [ok |-> TRUE, err |-> "", hs |-> c.hs, array |-> c.array]
      [] operator.name = "Fill" ->
            LET f == fill_f32(hs, operator.hardware, operator.shape, operator.value)
            IN  [ok |-> TRUE, err |-> "", hs |-> f.hs, array |-> f.array]
      [] operator.name = "Neg" -> elementwise_neg_f32(hs, inputs[1])
      [] operator.name \in BinaryNames ->
            elementwise_binary_f32(hs, operator.name, inputs[1], inputs[2])

\* Operator::perform_shape: the shape of the output from the input shapes.
perform_shape(operator, inputs) ==
    CASE operator.name = "Constant" ->
            [ok |-> TRUE, err |-> "", shape |-> operator.array[1].shape]
      [] operator.name = "Fill" -> [ok |-> TRUE, err |-> "", shape |-> operator.shape]
      [] operator.name = "Neg" -> [ok |-> TRUE, err |-> "", shape |-> inputs[1]]
      [] operator.name \in BinaryNames -> elementwise(inputs[1], inputs[2])

\* Operator::perform_hardware: the stored hardware of a nullary operator,
\* otherwise the common hardware of the inputs.
perform_hardware(operator, inputs) ==
    CASE operator.name = "Constant" ->
            [ok |-> TRUE, err |-> "", hardware |-> operator.array[1].buffer.hardware]
      [] operator.name = "Fill" ->
            [ok |-> TRUE, err |-> "", hardware |-> operator.hardware]
      [] OTHER ->
            IF \A i \in 1..Len(inputs) : inputs[i] = inputs[1]
            THEN [ok |-> TRUE, err |-> "", hardware |-> inputs[1]]
            ELSE [ok |-> FALSE, err |-> "InvalidNode", hardware |-> 0]

(***************************************************************************)
(* Graph.  A Step is [operator, inputs, outputs, placeholder]; inputs are  *)
(* step ids, outputs is the Option of the cached Array (None: Unassigned,  *)
(* Some: Assigned), placeholder is the shape and hardware known since the  *)
(* step was appended.  Every operator has exactly one output, so a         *)
(* NodeAddress is represented by its step id.                              *)
(***************************************************************************)
StepAt(st, step_id) == st[step_id + 1]

\* The Unassigned(shape, hardware) placeholder a step receives when it is
\* appended: perform_shape and perform_hardware on the inputs' placeholders.
\* Node::shape and Node::hardware read it.  ok is FALSE when the inference
\* fails, and the accessors then have nothing to return.
Placeholder(st, operator, inputs) ==
    LET ins == [i \in 1..Len(inputs) |->
                   IF inputs[i] < Len(st) THEN StepAt(st, inputs[i]).placeholder
                   ELSE [ok |-> FALSE, shape |-> << >>, hardware |-> 0]] IN
    IF \E i \in 1..Len(ins) : ~ins[i].ok
    THEN [ok |-> FALSE, shape |-> << >>, hardware |-> 0]
    ELSE LET sh == perform_shape(operator, [i \in 1..Len(ins) |-> ins[i].shape])
             hw == perform_hardware(operator, [i \in 1..Len(ins) |-> ins[i].hardware])
         IN  IF sh.ok /\ hw.ok
             THEN [ok |-> TRUE, shape |-> sh.shape, hardware |-> hw.hardware]
             ELSE [ok |-> FALSE, shape |-> << >>, hardware |-> 0]

\* Step::new
NewStep(st, operator, inputs) ==
    [operator |-> operator, inputs |-> inputs, outputs |-> << >>,
     placeholder |-> Placeholder(st, operator, inputs)]

\* An address check that was left out.
check_address_skipped(st, step_id) == TRUE

\* An address check that is off by one: it accepts the id of the next step.
check_address_inclusive(st, step_id) == step_id <= Len(st)

\* Graph::check_address
check_address(st, step_id) == step_id < Len(st)

\* An add_step that reads the id of the new step after the push.
add_step_id_after_push(st, operator, inputs) ==
    IF Len(inputs) # input_size(operator)
    THEN [ok |-> FALSE, err |-> "InvalidLength", steps |-> st, step_id |-> 0]
    ELSE IF \E i \in 1..Len(inputs) : ~check_address(st, inputs[i])
    THEN [ok |-> FALSE, err |-> "InvalidNode", steps |-> st, step_id |-> 0]
    ELSE [ok |-> TRUE, err |-> "",
          steps |-> Append(st, NewStep(st, operator, inputs)),
          step_id |-> Len(st) + 1]

\* An add_step that only rejects too few inputs.
add_step_accepts_extra(st, operator, inputs) ==
    IF Len(inputs) < input_size(operator)
    THEN [ok |-> FALSE, err |-> "InvalidLength", steps |-> st, step_id |-> 0]
    ELSE IF \E i \in 1..Len(inputs) : ~check_address(st, inputs[i])
    THEN [ok |-> FALSE, err |-> "InvalidNode", steps |-> st, step_id |-> 0]
    ELSE [ok |-> TRUE, err |-> "",
          steps |-> Append(st, NewStep(st, operator, inputs)),
          step_id |-> Len(st)]

\* Graph::add_step
add_step(st, operator, inputs) ==
    LET new_step_id == Len(st) IN
    IF Len(inputs) # input_size(operator)
    THEN [ok |-> FALSE, err |-> "InvalidLength", steps |-> st, step_id |-> 0]
    ELSE IF output_size(operator) = 0
    THEN [ok |-> FALSE, err |-> "OutOfRange", steps |-> st, step_id |-> 0]
    ELSE IF \E i \in 1..Len(inputs) : ~check_address(st, inputs[i])
    THEN [ok |-> FALSE, err |-> "InvalidNode", steps |-> st, step_id |-> 0]
    ELSE [ok |-> TRUE, err |-> "",
          steps |-> Append(st, NewStep(st, operator, inputs)),
          step_id |-> new_step_id]

\* Graph::is_calculated_unchecked
is_calculated(st, step_id) == StepAt(st, step_id).outputs # << >>

\* Graph::num_steps
num_steps(st) == Len(st)

(***************************************************************************)
(* Node arithmetic on a step sequence, and the gradient builders.          *)
(***************************************************************************)
\* An arithmetic overload of Node: add_step of the operator on the operands.
NodeOp(st, name, inputs) == add_step(st, PlainOp(name), inputs)

\* Node::fill
NodeFill(st, hw, shape, value) == add_step(st, FillOp(hw, shape, value), << >>)

\* Operator::get_gradient_fn is Some for the arithmetic operators only.
has_gradient_fn(operator) == operator.name \notin {"Constant", "Fill"}

\* NegGrad::perform: vec![-gy]
NegGrad(st, x, y, gy) ==
    LET a == NodeOp(st, "Neg", <<gy>>) IN [steps |-> a.steps, gxs |-> <<a.step_id>>]

\* AddGrad::perform: vec![gy, gy]
AddGrad(st, x, y, gy) == [steps |-> st, gxs |-> <<gy, gy>>]

\* Sub::gradient: vec![gy, -gy]
SubGrad(st, x, y, gy) ==
    LET a == NodeOp(st, "Neg", <<gy>>) IN [steps |-> a.steps, gxs |-> <<gy, a.step_id>>]

\* A gradient of mul that pairs each operand with itself.
MulGradSwapped(st, x, y, gy) ==
    LET a == add_step(st, PlainOp("Mul"), <<gy, x[1]>>)
        b == add_step(a.steps, PlainOp("Mul"), <<gy, x[2]>>)
    IN  [steps |-> b.steps, gxs |-> <<a.step_id, b.step_id>>]

\* MulGrad::perform: vec![gy * x[1], gy * x[0]]
MulGrad(st, x, y, gy) ==
    LET a == NodeOp(st, "Mul", <<gy, x[2]>>)
        b == NodeOp(a.steps, "Mul", <<gy, x[1]>>)
    IN  [steps |-> b.steps, gxs |-> <<a.step_id, b.step_id>>]

\* A gradient of div that forgets the sign of the second component.
DivGradNoNeg(st, x, y, gy) ==
    LET gx0 == add_step(st, PlainOp("Div"), <<gy, x[2]>>)
        gx1 == add_step(gx0.steps, PlainOp("Mul"), <<y, gx0.step_id>>)
    IN  [steps |-> gx1.steps, gxs |-> <<gx0.step_id, gx1.step_id>>]

\* DivGrad::perform: gx0 = gy / x[1]; vec![gx0, -y * gx0]
DivGrad(st, x, y, gy) ==
    LET gx0 == NodeOp(st, "Div", <<gy, x[2]>>)
        ny == NodeOp(gx0.steps, "Neg", <<y>>)
        gx1 == NodeOp(ny.steps, "Mul", <<ny.step_id, gx0.step_id>>)
    IN  [steps |-> gx1.steps, gxs |-> <<gx0.step_id, gx1.step_id>>]

\* grad_fn.perform(&cur_xs, cur_y, cur_gy) of the operator called name.
GradientPerform(st, name, x, y, gy) ==
    CASE name = "Neg" -> NegGrad(st, x, y, gy)
      [] name = "Add" -> AddGrad(st, x, y, gy)
      [] name = "Sub" -> SubGrad(st, x, y, gy)
      [] name = "Mul" -> MulGrad(st, x, y, gy)
      [] name = "Div" -> DivGrad(st, x, y, gy)

\* An integration that overwrites the slot instead of summing into it.
AccumulateOverwrite(st, prev_gx, cur_gx) == [steps |-> st, slot |-> <<cur_gx>>]

\* The new slot of an input that receives cur_gx: the sum with the gradient
\* it already holds (one more Add step), or cur_gx itself.
Accumulate(st, prev_gx, cur_gx) ==
    IF prev_gx # << >>
    THEN LET a == NodeOp(st, "Add", <<prev_gx[1], cur_gx>>)
         IN  [steps |-> a.steps, slot |-> <<a.step_id>>]
    ELSE [steps |-> st, slot |-> <<cur_gx>>]

\* "Integrates gradients": the loop over cur_xs_ids zipped with cur_gxs,
\* from position i on.
RECURSIVE Integrate(_, _, _, _, _)
Integrate(st, gradients, cur_xs_ids, cur_gxs, i) ==
    IF i > Len(cur_xs_ids) \/ i > Len(cur_gxs)
    THEN [steps |-> st, gradients |-> gradients]
    ELSE LET cur_x_id == cur_xs_ids[i]
             a == Accumulate(st, gradients[cur_x_id + 1], cur_gxs[i])
         IN  Integrate(a.steps, [gradients EXCEPT ![cur_x_id + 1] = a.slot],
                       cur_xs_ids, cur_gxs, i + 1)

\* One iteration of the backpropagation loop of grad, for step_id.
Backward(st, gradients, step_id) ==
    LET cur_gy == gradients[step_id + 1]
        step == StepAt(st, step_id)
    IN  IF cur_gy = << >>
        THEN [steps |-> st, gradients |-> gradients]
        ELSE IF ~has_gradient_fn(step.operator)
        THEN [steps |-> st, gradients |-> gradients]
        ELSE LET r == GradientPerform(st, step.operator.name, step.inputs,
                                      step_id, cur_gy[1])
             IN  Integrate(r.steps, gradients, step.inputs, r.gxs, 1)

\* A collection that fills the absent gradients with ones.
RECURSIVE CollectOnes(_, _, _, _)
CollectOnes(st, gradients, x, i) ==
    IF i > Len(x)
    THEN [ok |-> TRUE, steps |-> st, nodes |-> << >>]
    ELSE LET slot == gradients[x[i] + 1]
             ph == StepAt(st, x[i]).placeholder
         IN  IF slot # << >>
             THEN LET rest == CollectOnes(st, gradients, x, i + 1)
                  IN  [rest EXCEPT !.nodes = <<slot[1]>> \o @]
             ELSE IF ~ph.ok
             THEN [ok |-> FALSE, steps |-> st, nodes |-> << >>]
             ELSE LET f == add_step(st, FillOp(ph.hardware, ph.shape, F32(1)), << >>)
                      rest == CollectOnes(f.steps, gradients, x, i + 1)
                  IN  [rest EXCEPT !.nodes = <<f.step_id>> \o @]

\* "Collects the nodes": the result for x[i..], appending a zero Fill for
\* every x without a gradient.  ok is FALSE when shape()/hardware() of such
\* an x has no placeholder to return.
RECURSIVE Collect(_, _, _, _)
Collect(st, gradients, x, i) ==
    IF i > Len(x)
    THEN [ok |-> TRUE, steps |-> st, nodes |-> << >>]
    ELSE LET slot == gradients[x[i] + 1]
             ph == StepAt(st, x[i]).placeholder
         IN  IF slot # << >>
             THEN LET rest == Collect(st, gradients, x, i + 1)
                  IN  [rest EXCEPT !.nodes = <<slot[1]>> \o @]
             ELSE IF ~ph.ok
             THEN [ok |-> FALSE, steps |-> st, nodes |-> << >>]
             ELSE LET f == NodeFill(st, ph.hardware, ph.shape, F32(0))
                      rest == Collect(f.steps, gradients, x, i + 1)
                  IN  [rest EXCEPT !.nodes = <<f.step_id>> \o @]

\* min of the step ids of x
MinStepId(x) == CHOOSE m \in {x[i] : i \in 1..Len(x)} : \A i \in 1..Len(x) : m <= x[i]

(***************************************************************************)
(* Reference semantics: the value of the arithmetic expression a node      *)
(* denotes, by the natural recursion over its inputs, tabulated by step    *)
(* id.  A value is [ok, hardware, shape, data]; an expression whose        *)
(* operands lie on different hardware or have different shapes has none.   *)
(***************************************************************************)
NoValue == [ok |-> FALSE, hardware |-> 0, shape |-> << >>, data |-> << >>]

Arith(name, x, y) ==
    IF name = "Add" THEN F32Add(x, y)
    ELSE IF name = "Sub" THEN F32Add(x, F32Neg(y))
    ELSE IF name = "Mul" THEN F32Mul(x, y)
    ELSE F32Div(x, y)

\* The n numbers f[1] .. f[n] as a sequence of evaluated numbers.
Numbers(f, n) == SubSeq(f, 1, n)

\* The value of the step st[i], given the values tab of the steps before it.
ValueOf(tab, st, mem, i) ==
    LET op == st[i].operator
        in1 == tab[st[i].inputs[1] + 1]
        in2 == tab[st[i].inputs[2] + 1]
    IN  CASE \E k \in 1..Len(st[i].inputs) : st[i].inputs[k] >= Len(tab) -> NoValue
          [] op.name = "Constant" ->
                [ok |-> TRUE, hardware |-> op.array[1].buffer.hardware,
                 shape |-> op.array[1].shape, data |-> mem[op.array[1].buffer.handle]]
          [] op.name = "Fill" ->
                [ok |-> TRUE, hardware |-> op.hardware, shape |-> op.shape,
                 data |-> Numbers([k \in 1..Product(op.shape) |-> op.value],
                                  Product(op.shape))]
          [] op.name = "Neg" ->
                IF in1.ok
                THEN [in1 EXCEPT !.data = Numbers([k \in 1..Len(in1.data) |->
                                                      F32Neg(in1.data[k])],
                                                  Len(in1.data))]
                ELSE NoValue
          [] OTHER ->
                IF /\ in1.ok
                   /\ in2.ok
                   /\ in1.hardware = in2.hardware
                   /\ in1.shape = in2.shape
                THEN [in1 EXCEPT !.data = Numbers([k \in 1..Len(in1.data) |->
                                  Arith(op.name, in1.data[k], in2.data[k])],
                                                  Len(in1.data))]
                ELSE NoValue

\* The table tab of the values of the first Len(tab) steps, extended to the
\* first n steps.
RECURSIVE ValuesFrom(_, _, _, _)
ValuesFrom(tab, st, mem, n) ==
    IF Len(tab) >= n THEN tab
    ELSE ValuesFrom(Append(tab, ValueOf(tab, st, mem, Len(tab) + 1)), st, mem, n)

\* The values of the first n steps.
Values(st, mem, n) == ValuesFrom(<< >>, st, mem, n)


(***************************************************************************)
(* The state of a program that uses one Graph and the Hardware instances   *)
(* HW from a single thread.                                                *)
(***************************************************************************)
VARIABLES
    steps,          \* Graph::steps
    supplied,       \* CpuHardware::supplied of every hardware
    memory,         \* contents of the live allocations
    pc,             \* "idle", inside "calc", inside "grad", in "teardown" (the
                    \* Graphs are dropped), or ended by "panic" or "abort"
    target,         \* calculate: the target step id
    action_stack,   \* calculate: the stack of the push-down automaton
    result,         \* Option of the Array the last calculate returned (user-held)
    error,          \* the Err or panic of the last call, "" when it succeeded
    performed,      \* history: the step ids whose forward was performed, in order
    grad_y,         \* grad: the step id of y
    grad_x,         \* grad: the step ids of x
    gradients,      \* grad: the table of Option<Node>, indexed by step id
    cur_step_id,        \* grad: the step the backpropagation loop visits next
    grad_ret,       \* the nodes the last grad returned
    before,         \* history: steps, supplied and memory when grad was called
    history,        \* history: [y, x, ret] of every grad call that returned
    returned,       \* history: [target, shape, data] of every calculate that returned
    values,         \* history: the value of every step's expression, recorded
                    \* when the step was appended
    nodes,          \* the step ids of the Nodes the user has received
    nbuilt,         \* number of Node constructor / overload calls so far
    ncalc,          \* number of calculate calls so far
    ngrad,          \* number of grad calls so far
    other_steps,    \* Graph::steps of a second Graph of the program
    arrays,         \* the Arrays the user made with the Array API and still holds
    raw,            \* the <<hardware, handle, size>> of the memory the user took
                    \* with allocate_memory and has not given back
    live,           \* the Hardware objects that have not been dropped
    dropped,        \* history: [hw, outstanding, panic, num_leaked] of every
                    \* Hardware drop
    nops,           \* number of Array and raw memory calls so far
    ncross,         \* number of operations attempted on Nodes of different Graphs
    released,       \* the <<hardware, handle, size, n>> of the memory the user gave
                    \* back and still has the pointer of, deallocated n times since
    shape_call,     \* the last call of Shape::new: its dims and what came of it
    borrows,        \* the RefCell borrow flag of the Graph and of every Hardware
    script          \* the borrow events left of the operation that is running

vars == <<steps, supplied, memory, pc, target, action_stack, result, error,
          performed, grad_y, grad_x, gradients, cur_step_id, grad_ret, before,
          history, returned, values, nodes, nbuilt, ncalc, ngrad,
          other_steps, arrays, raw, live, dropped, nops, ncross,
          released, shape_call, borrows, script>>

\* What the operations on the first Graph leave alone.
other_vars == <<other_steps, arrays, raw, live, dropped, nops, ncross,
                released, shape_call, borrows, script>>

\* The hardware state the Array layer works on.
HS == [supplied |-> supplied, memory |-> memory]


Init ==
    /\ steps = << >>
    /\ supplied = [hw \in HW |-> {}]
    /\ memory = << >>
    /\ pc = "idle"
    /\ target = 0
    /\ action_stack = << >>
    /\ result = << >>
    /\ error = ""
    /\ performed = << >>
    /\ grad_y = 0
    /\ grad_x = << >>
    /\ gradients = << >>
    /\ cur_step_id = 0
    /\ grad_ret = << >>
    /\ before = [steps |-> << >>, supplied |-> [hw \in HW |-> {}], memory |-> << >>]
    /\ history = << >>
    /\ returned = << >>
    /\ values = << >>
    /\ nodes = {}
    /\ nbuilt = 0
    /\ ncalc = 0
    /\ ngrad = 0
    /\ other_steps = << >>
    /\ arrays = {}
    /\ raw = {}
    /\ live = HW
    /\ dropped = << >>
    /\ nops = 0
    /\ ncross = 0
    /\ released = {}
    /\ shape_call = << >>
    /\ borrows = [c \in {0} \cup HW |-> 0]
    /\ script = << >>

calc_vars == <<target, action_stack, result, performed, returned, ncalc>>

\* The recorded values, extended to the steps an action appended.
Recorded(st, mem) == ValuesFrom(values, st, mem, Len(st))
grad_vars == <<grad_y, grad_x, gradients, cur_step_id, grad_ret, before, history, ngrad>>

(***************************************************************************)
(* Node constructors and arithmetic overloads.                             *)
(***************************************************************************)
\* Node::from_scalar
from_scalar(hw, value) ==
    /\ pc = "idle"
    /\ result = << >>
    /\ LET a == scalar_f32(HS, hw, value)
           r == add_step(steps, ConstantOp(a.array), << >>)
       IN  /\ steps' = r.steps
           /\ supplied' = a.hs.supplied
           /\ memory' = a.hs.memory
           /\ error' = ""
           /\ pc' = IF r.ok THEN "idle" ELSE "panic"
           /\ nodes' = IF r.ok THEN nodes \cup {r.step_id} ELSE nodes
    /\ values' = Recorded(steps', memory')
    /\ nbuilt' = nbuilt + 1
    /\ UNCHANGED <<calc_vars, grad_vars>>
    /\ UNCHANGED other_vars

\* Node::fill
fill(hw, shape, value) ==
    /\ pc = "idle"
    /\ result = << >>
    /\ LET r == add_step(steps, FillOp(hw, shape, value), << >>)
       IN  /\ steps' = r.steps
           /\ error' = ""
           /\ pc' = IF r.ok THEN "idle" ELSE "panic"
           /\ nodes' = IF r.ok THEN nodes \cup {r.step_id} ELSE nodes
    /\ values' = Recorded(steps', memory)
    /\ nbuilt' = nbuilt + 1
    /\ UNCHANGED <<supplied, memory, calc_vars, grad_vars>>
    /\ UNCHANGED other_vars

\* impl Neg / Add / Sub / Mul / Div for Node: check_graph, then add_step.
overload(name, inputs) ==
    /\ pc = "idle"
    /\ result = << >>
    /\ LET r == add_step(steps, PlainOp(name), inputs)
       IN  /\ steps' = r.steps
           /\ error' = ""
           /\ pc' = IF r.ok THEN "idle" ELSE "panic"
           /\ nodes' = IF r.ok THEN nodes \cup {r.step_id} ELSE nodes
    /\ values' = Recorded(steps', memory)
    /\ nbuilt' = nbuilt + 1
    /\ UNCHANGED <<supplied, memory, calc_vars, grad_vars>>
    /\ UNCHANGED other_vars

\* A direct call of Graph::add_step by a caller inside the crate:
\* the Err is returned to the caller, the graph is left as it was.
add_step_call(name, inputs) ==
    /\ pc = "idle"
    /\ result = << >>
    /\ LET r == add_step(steps, PlainOp(name), inputs)
       IN  /\ steps' = r.steps
           /\ error' = r.err
           /\ nodes' = IF r.ok THEN nodes \cup {r.step_id} ELSE nodes
    /\ values' = Recorded(steps', memory)
    /\ nbuilt' = nbuilt + 1
    /\ UNCHANGED <<supplied, memory, pc, calc_vars, grad_vars>>
    /\ UNCHANGED other_vars

neg == \E a \in nodes : overload("Neg", <<a>>)

binary == \E name \in BinaryNames, a \in nodes, b \in nodes : overload(name, <<a, b>>)

(***************************************************************************)
(* Graph::calculate, one transition per pop of the action stack.           *)
(***************************************************************************)
\* A Fetch that pushes the Perform above the Fetches of the inputs.
FetchPushesPerformFirst(st, sid) ==
    [i \in 1..Len(StepAt(st, sid).inputs) |-> <<StepAt(st, sid).inputs[i], "Fetch">>]
    \o <<<<sid, "Perform">>>>

\* A Fetch that pushes a Fetch of its own step again.
FetchPushesItself(st, sid) ==
    <<<<sid, "Perform">>, <<sid, "Fetch">>>>

\* The entries a Fetch of an uncalculated step pushes: its Perform, then a
\* Fetch of every input.
FetchPushes(st, sid) ==
    <<<<sid, "Perform">>>> \o
    [i \in 1..Len(StepAt(st, sid).inputs) |-> <<StepAt(st, sid).inputs[i], "Fetch">>]

\* A Fetch that ignores the cache.
FetchNeverSkips(st, sid) == FALSE

\* Whether a Fetch of the step has nothing to do: it is already calculated.
FetchSkips(st, sid) == is_calculated(st, sid)

\* A calculate that evaluates every step up to the target, ancestor or not.
calculate_begin_all_steps(t) ==
    /\ pc = "idle"
    /\ result = << >>
    /\ ncalc' = ncalc + 1
    /\ target' = t
    /\ IF check_address(steps, t)
       THEN /\ action_stack' = [i \in 1..(t + 1) |-> <<i - 1, "Fetch">>]
            /\ pc' = "calc"
            /\ error' = ""
       ELSE /\ action_stack' = << >>
            /\ pc' = "idle"
            /\ error' = "InvalidNode"
    /\ UNCHANGED <<steps, supplied, memory, result, performed, returned, values, nodes, nbuilt,
                   grad_vars>>
    /\ UNCHANGED other_vars

\* calculate: check_address, then the initial stack.
calculate_begin(t) ==
    /\ pc = "idle"
    /\ result = << >>
    /\ ncalc' = ncalc + 1
    /\ target' = t
    /\ IF check_address(steps, t)
       THEN /\ action_stack' = <<<<t, "Fetch">>>>
            /\ pc' = "calc"
            /\ error' = ""
       ELSE /\ action_stack' = << >>
            /\ pc' = "idle"
            /\ error' = "InvalidNode"
    /\ UNCHANGED <<steps, supplied, memory, result, performed, returned, values, nodes, nbuilt,
                   grad_vars>>
    /\ UNCHANGED other_vars

Top == action_stack[Len(action_stack)]
Popped == SubSeq(action_stack, 1, Len(action_stack) - 1)

\* Action::Fetch
calculate_fetch ==
    /\ pc = "calc"
    /\ action_stack # << >>
    /\ Top[2] = "Fetch"
    /\ action_stack' = IF FetchSkips(steps, Top[1])
                       THEN Popped
                       ELSE Popped \o FetchPushes(steps, Top[1])
    /\ UNCHANGED <<steps, supplied, memory, pc, target, result, error, performed,
                   returned, values, nodes, nbuilt, ncalc, grad_vars>>
    /\ UNCHANGED other_vars

\* Action::Perform
calculate_perform ==
    /\ pc = "calc"
    /\ action_stack # << >>
    /\ Top[2] = "Perform"
    /\ action_stack' = Popped
    /\ LET sid == Top[1]
           node == StepAt(steps, sid)
       IN  IF \E i \in 1..Len(node.inputs) : ~is_calculated(steps, node.inputs[i])
           THEN \* unwrap of an input's outputs that is None
                /\ pc' = "panic"
                /\ error' = "InputNotCalculated"
                /\ UNCHANGED <<steps, supplied, memory, performed>>
           ELSE LET inputs == [i \in 1..Len(node.inputs) |->
                                  StepAt(steps, node.inputs[i]).outputs[1]]
                    r == perform(HS, node.operator, inputs)
                    \* the assignment drops the Array the step held before
                    d == IF node.outputs = << >> THEN [ok |-> TRUE, hs |-> r.hs]
                         ELSE ArrayDrop(r.hs, node.outputs[1])
                IN  /\ performed' = Append(performed, sid)
                    /\ IF ~r.ok
                       THEN /\ pc' = "panic"
                            /\ error' = r.err
                            /\ UNCHANGED <<steps, supplied, memory>>
                       ELSE /\ pc' = IF d.ok THEN "calc" ELSE "panic"
                            /\ error' = IF d.ok THEN "" ELSE "NotSupplied"
                            /\ steps' = [steps EXCEPT ![sid + 1].outputs = <<r.array>>]
                            /\ supplied' = d.hs.supplied
                            /\ memory' = d.hs.memory
    /\ UNCHANGED <<target, result, returned, values, nodes, nbuilt, ncalc, grad_vars>>
    /\ UNCHANGED other_vars

\* A calculate that hands out the cached Array itself.
calculate_return_cached ==
    /\ pc = "calc"
    /\ action_stack = << >>
    /\ result' = <<StepAt(steps, target).outputs[1]>>
    /\ returned' = Append(returned,
                          [target |-> target,
                           shape |-> StepAt(steps, target).outputs[1].shape,
                           data |-> get_values_f32(HS, StepAt(steps, target).outputs[1])])
    /\ pc' = "idle"
    /\ error' = ""
    /\ UNCHANGED <<steps, supplied, memory, target, action_stack, performed, values, nodes,
                   nbuilt, ncalc, grad_vars>>
    /\ UNCHANGED other_vars

\* The end of calculate: Ok(clone of the target's cached Array).
calculate_return ==
    /\ pc = "calc"
    /\ action_stack = << >>
    /\ LET c == ArrayClone(HS, StepAt(steps, target).outputs[1])
       IN  /\ result' = <<c.array>>
           /\ supplied' = c.hs.supplied
           /\ memory' = c.hs.memory
           /\ returned' = Append(returned,
                                 [target |-> target, shape |-> c.array.shape,
                                  data |-> get_values_f32(c.hs, c.array)])
    /\ pc' = "idle"
    /\ error' = ""
    /\ UNCHANGED <<steps, target, action_stack, performed, values, nodes, nbuilt, ncalc,
                   grad_vars>>
    /\ UNCHANGED other_vars

\* The user drops the Array a calculate returned.
drop_result ==
    /\ pc \in {"idle", "teardown"}
    /\ result # << >>
    /\ LET d == ArrayDrop(HS, result[1])
       IN  /\ pc' = IF d.ok THEN pc ELSE "panic"
           /\ error' = IF d.ok THEN "" ELSE "NotSupplied"
           /\ supplied' = d.hs.supplied
           /\ memory' = d.hs.memory
    /\ result' = << >>
    /\ UNCHANGED <<steps, target, action_stack, performed, returned, values, nodes, nbuilt,
                   ncalc, grad_vars>>
    /\ UNCHANGED other_vars

(***************************************************************************)
(* grad(y, x), one transition per iteration of the backpropagation loop.   *)
(***************************************************************************)
\* The lists x a call may pass: every list of at most n nodes.
XLists(n) == UNION {[1..k -> nodes] : k \in 0..n}

\* A seed built as a Constant of a freshly allocated Array of ones.
SeedConstant(hs, st, y) ==
    LET ph == StepAt(st, y).placeholder
        a == fill_f32(hs, ph.hardware, ph.shape, F32(1))
        c == add_step(st, ConstantOp(a.array), << >>)
    IN  [hs |-> a.hs, steps |-> c.steps, step_id |-> c.step_id]

\* The seed of the call: Node::fill(y.hardware(), g, y.shape(), 1.)
\* A Fill step stores hardware, shape and value: the Hardware is not asked
\* for memory, hs is returned as it was.
Seed(hs, st, y) ==
    LET ph == StepAt(st, y).placeholder
        f == NodeFill(st, ph.hardware, ph.shape, F32(1))
    IN  [hs |-> hs, steps |-> f.steps, step_id |-> f.step_id]

\* An emptiness test that never holds.
no_earliest_step_never(x) == FALSE

\* x.iter().map(|node| node.step_id).min() is None: x is empty.
no_earliest_step(x) == x = << >>

\* A grad whose table ends at the slot of y.
grad_begin_table_to_y(y, x) ==
    /\ pc = "idle"
    /\ result = << >>
    /\ ngrad' = ngrad + 1
    /\ grad_y' = y
    /\ grad_x' = x
    /\ before' = [steps |-> steps, supplied |-> supplied, memory |-> memory]
    /\ IF no_earliest_step(x)
       THEN /\ grad_ret' = << >>
            /\ history' = Append(history, [y |-> y, x |-> x, ret |-> << >>])
            /\ pc' = "idle"
            /\ error' = ""
            /\ UNCHANGED <<steps, supplied, memory, gradients, cur_step_id>>
       ELSE IF ~StepAt(steps, y).placeholder.ok
       THEN /\ pc' = "panic"
            /\ error' = "NoPlaceholder"
            /\ UNCHANGED <<steps, supplied, memory, gradients, cur_step_id, grad_ret,
                           history>>
       ELSE LET seed == Seed(HS, steps, y)
            IN  /\ steps' = seed.steps
                /\ supplied' = seed.hs.supplied
                /\ memory' = seed.hs.memory
                /\ gradients' = [[i \in 1..(y + 1) |-> << >>]
                                    EXCEPT ![y + 1] = <<seed.step_id>>]
                /\ cur_step_id' = y
                /\ pc' = "grad"
                /\ error' = ""
                /\ UNCHANGED <<grad_ret, history>>
    /\ values' = Recorded(steps', memory')
    /\ UNCHANGED <<calc_vars, nodes, nbuilt>>
    /\ UNCHANGED other_vars

\* grad up to the loop: the empty-x return, the table and the seed.
grad_begin(y, x) ==
    /\ pc = "idle"
    /\ result = << >>
    /\ ngrad' = ngrad + 1
    /\ grad_y' = y
    /\ grad_x' = x
    /\ before' = [steps |-> steps, supplied |-> supplied, memory |-> memory]
    /\ IF no_earliest_step(x)
       THEN /\ grad_ret' = << >>
            /\ history' = Append(history, [y |-> y, x |-> x, ret |-> << >>])
            /\ pc' = "idle"
            /\ error' = ""
            /\ UNCHANGED <<steps, supplied, memory, gradients, cur_step_id>>
       ELSE IF ~StepAt(steps, y).placeholder.ok
       THEN /\ pc' = "panic"
            /\ error' = "NoPlaceholder"
            /\ UNCHANGED <<steps, supplied, memory, gradients, cur_step_id, grad_ret,
                           history>>
       ELSE LET seed == Seed(HS, steps, y)
            IN  /\ steps' = seed.steps
                /\ supplied' = seed.hs.supplied
                /\ memory' = seed.hs.memory
                /\ gradients' = [[i \in 1..num_steps(steps) |-> << >>]
                                    EXCEPT ![y + 1] = <<seed.step_id>>]
                /\ cur_step_id' = y
                /\ pc' = "grad"
                /\ error' = ""
                /\ UNCHANGED <<grad_ret, history>>
    /\ values' = Recorded(steps', memory')
    /\ UNCHANGED <<calc_vars, nodes, nbuilt>>
    /\ UNCHANGED other_vars

\* A loop that walks the step ids upwards.
rev_next_ascending(step_id) == step_id + 1

\* The step id that follows step_id in
\* ((earliest_step_id + 1)..=latest_step_id).rev().
rev_next(step_id) == step_id - 1

\* One iteration of "for cur_step_id in ((earliest_step_id + 1)..=latest_step_id).rev()".
grad_backward ==
    /\ pc = "grad"
    /\ cur_step_id >= MinStepId(grad_x) + 1
    /\ LET r == Backward(steps, gradients, cur_step_id)
       IN  /\ steps' = r.steps
           /\ gradients' = r.gradients
    /\ cur_step_id' = rev_next(cur_step_id)
    /\ values' = Recorded(steps', memory)
    /\ UNCHANGED <<supplied, memory, pc, error, calc_vars, grad_y, grad_x, grad_ret,
                   before, history, ngrad, nodes, nbuilt>>
    /\ UNCHANGED other_vars

\* The end of grad: Ok(the gradient node of every x).
grad_return ==
    /\ pc = "grad"
    /\ cur_step_id < MinStepId(grad_x) + 1
    /\ LET c == Collect(steps, gradients, grad_x, 1)
       IN  /\ steps' = c.steps
           /\ grad_ret' = c.nodes
           /\ history' = IF c.ok
                         THEN Append(history, [y |-> grad_y, x |-> grad_x, ret |-> c.nodes])
                         ELSE history
           /\ nodes' = nodes \cup {c.nodes[i] : i \in 1..Len(c.nodes)}
           /\ pc' = IF c.ok THEN "idle" ELSE "panic"
           /\ error' = IF c.ok THEN "" ELSE "NoPlaceholder"
    /\ values' = Recorded(steps', memory)
    /\ UNCHANGED <<supplied, memory, calc_vars, grad_y, grad_x, gradients, cur_step_id,
                   before, ngrad, nbuilt>>
    /\ UNCHANGED other_vars

(***************************************************************************)
(* The programs.  A behaviour is a single-threaded program that calls the  *)
(* API; the budgets bound how many calls of each kind it makes.            *)
(***************************************************************************)
ScalarArgs == {<<1, F32(2)>>, <<1, F32(3)>>, <<2, F32(2)>>}
FillArgs == {<<1, <<2>>, F32(2)>>}
\* The operators and input lists of the direct add_step calls: lists of at
\* most two addresses, Len(steps) being the first invalid one.
RawNames == {"Neg", "Add"}
RawInputs == UNION {[1..k -> 0..Len(steps)] : k \in 0..2}

Build(n) ==
    /\ nbuilt < n
    /\ \/ \E a \in ScalarArgs : from_scalar(a[1], a[2])
       \/ \E a \in FillArgs : fill(a[1], a[2], a[3])
       \/ neg
       \/ binary
       \/ \E name \in RawNames, inputs \in RawInputs : add_step_call(name, inputs)

Calculate(n) ==
    \/ ncalc < n /\ \E t \in nodes : calculate_begin(t)
    \/ calculate_fetch
    \/ calculate_perform
    \/ calculate_return
    \/ drop_result

Grad(n, k) ==
    \/ ngrad < n /\ \E y \in nodes, x \in XLists(k) : grad_begin(y, x)
    \/ grad_backward
    \/ grad_return

\* Build, evaluate and differentiate in any order.
Next == Build(MaxBuildMixed) \/ Calculate(MaxCalc) \/ Grad(MaxGrad, MaxXsMixed)

Spec == Init /\ [][Next]_vars

\* Build and evaluate.
NextCalc == Build(MaxBuild) \/ Calculate(MaxCalc)

SpecCalc == Init /\ [][NextCalc]_vars

\* Build and differentiate.
NextGrad == Build(MaxBuild) \/ Grad(MaxGrad, MaxXs)

SpecGrad == Init /\ [][NextGrad]_vars

(***************************************************************************)
(* Vocabulary of the properties.                                           *)
(***************************************************************************)
\* The value of the expression the step with this id denotes.
Value(step_id) == values[step_id + 1]

\* The contents of a live Array as a value.
ArrayValue(array) ==
    [ok |-> TRUE, hardware |-> array.buffer.hardware, shape |-> array.shape,
     data |-> memory[array.buffer.handle]]

AllFinite(v) == v.ok /\ \A k \in 1..Len(v.data) : IsFinite(v.data[k])

\* Elementwise IEEE equality of two values.
SameNumbers(v, w) ==
    /\ v.ok
    /\ w.ok
    /\ Len(v.data) = Len(w.data)
    /\ \A k \in 1..Len(v.data) : F32Eq(v.data[k], w.data[k])

\* The ids of the step and of all its ancestors, for the first n steps.
RECURSIVE AncestorsFrom(_, _, _)
AncestorsFrom(tab, st, n) ==
    IF Len(tab) >= n THEN tab
    ELSE AncestorsFrom(
             Append(tab, {Len(tab)} \cup
                         UNION {tab[st[Len(tab) + 1].inputs[k] + 1] :
                                    k \in 1..Len(st[Len(tab) + 1].inputs)}),
             st, n)

Ancestors(st, n) == AncestorsFrom(<< >>, st, n)

AncestorsOrSelf(step_id) == Ancestors(steps, step_id + 1)[step_id + 1]

IsLeaf(step_id) == StepAt(steps, step_id).operator.name \in {"Constant", "Fill"}

(***************************************************************************)
(* Properties of calculate.                                                *)
(***************************************************************************)
\* C1: when calculate(n) returns, the Array it returns holds the value of the
\* expression n denotes (hardware, shape and every element), whatever was
\* cached before the call; and calculate fails in a forward only when the
\* expression has no value.
C1_CalculateReturnsExpressionValue ==
    /\ (pc = "idle" /\ result # << >>) => ArrayValue(result[1]) = Value(target)
    /\ error \notin {"InputNotCalculated", "NotSupplied"}
    /\ (pc = "panic" /\ error \in {"InvalidHardware", "InvalidShape"})
          => ~Value(target).ok

\* A second calculate has returned the value of a binary step whose inputs
\* were cached by the first.
C1_Witness ==
    /\ pc = "idle"
    /\ result # << >>
    /\ ncalc = 2
    /\ StepAt(steps, target).operator.name = "Sub"
    /\ Len(performed) = 3
    /\ performed[3] = target
    /\ returned[1].target # target
    /\ Value(target).data = <<F32(-1)>>

\* C2: at every moment the forward of each step has been performed at most
\* once since the graph was created, whatever calls were made.
C2_ForwardAtMostOnce ==
    \A i, j \in 1..Len(performed) : i # j => performed[i] # performed[j]

\* Two calculate calls and a grad have been made on a graph whose target
\* reads one step through both of its inputs.
C2_Witness ==
    /\ pc = "idle"
    /\ ncalc = 2
    /\ Len(history) = 1
    /\ Len(performed) >= 2
    /\ \E i \in 1..Len(performed) :
          LET s == StepAt(steps, performed[i])
          IN  Len(s.inputs) = 2 /\ s.inputs[1] = s.inputs[2]

\* The cached value of a step: the Array and what it holds.
Cached(st, mem, i) ==
    [array |-> st[i].outputs[1],
     live |-> st[i].outputs[1].buffer.handle \in DOMAIN mem,
     data |-> IF st[i].outputs[1].buffer.handle \in DOMAIN mem
              THEN mem[st[i].outputs[1].buffer.handle] ELSE << >>]

\* C3: a step that is Assigned stays Assigned with the same Array holding the
\* same numbers in every later state, and two calculate calls on the same
\* target return equal Arrays.
C3_AssignedValueIsStable ==
    /\ [][\A i \in 1..Len(steps) :
            steps[i].outputs # << >> =>
                /\ i <= Len(steps')
                /\ steps'[i].outputs # << >>
                /\ Cached(steps', memory', i) = Cached(steps, memory, i)
                /\ Cached(steps, memory, i).live]_vars
    /\ [](\A i, j \in 1..Len(returned) :
            returned[i].target = returned[j].target =>
                /\ returned[i].shape = returned[j].shape
                /\ returned[i].data = returned[j].data)

\* Two calculate calls on the same target have returned, with a grad and an
\* append between them.
C3_Witness ==
    /\ Len(returned) = 2
    /\ returned[1].target = returned[2].target
    /\ Len(history) = 1
    /\ history[1].ret # << >>
    /\ Len(steps) > Len(before.steps) + 1
    /\ \E i \in 1..Len(before.steps) : before.steps[i].outputs # << >>

\* C4: whenever a Perform is on top of the stack, every input of its step is
\* Assigned, so the read of the cached inputs never fails.
C4_InputsAssignedAtPerform ==
    /\ (pc = "calc" /\ action_stack # << >> /\ Top[2] = "Perform") =>
          \A i \in 1..Len(StepAt(steps, Top[1]).inputs) :
              is_calculated(steps, StepAt(steps, Top[1]).inputs[i])
    /\ error # "InputNotCalculated"

\* A Perform of a step with two different inputs is about to run, after the
\* same call performed both inputs.
C4_Witness ==
    /\ pc = "calc"
    /\ action_stack # << >>
    /\ Top[2] = "Perform"
    /\ Len(StepAt(steps, Top[1]).inputs) = 2
    /\ StepAt(steps, Top[1]).inputs[1] # StepAt(steps, Top[1]).inputs[2]
    /\ Len(performed) = 2
    /\ ncalc = 1

(***************************************************************************)
(* Properties of grad.  A node "evaluates to" the value of the expression  *)
(* it denotes (C1 relates that value to calculate).                        *)
(***************************************************************************)
\* The derivative of the step st[i] with respect to the step x, by the
\* forward rules of differentiation, given the derivatives dtab of the steps
\* before it: x is the variable, every other step that is not computed from
\* x is a constant.
DerivOf(dtab, vtab, st, x, i) ==
    LET op == st[i].operator
        v == vtab[i]
        n == Len(v.data)
        iv == [k \in 1..Len(st[i].inputs) |-> vtab[st[i].inputs[k] + 1]]
        id == [k \in 1..Len(st[i].inputs) |-> dtab[st[i].inputs[k] + 1]]
    IN  IF ~v.ok THEN NoValue
        ELSE IF i - 1 = x THEN [v EXCEPT !.data = Numbers([k \in 1..n |-> F32(1)], n)]
        ELSE IF i - 1 < x \/ op.name \in {"Constant", "Fill"}
        THEN [v EXCEPT !.data = Numbers([k \in 1..n |-> F32(0)], n)]
        ELSE [v EXCEPT !.data = Numbers([k \in 1..n |->
                CASE op.name = "Neg" -> F32Neg(id[1].data[k])
                  [] op.name = "Add" -> F32Add(id[1].data[k], id[2].data[k])
                  [] op.name = "Sub" -> F32Sub(id[1].data[k], id[2].data[k])
                  [] op.name = "Mul" ->
                        F32Add(F32Mul(id[1].data[k], iv[2].data[k]),
                               F32Mul(iv[1].data[k], id[2].data[k]))
                  [] op.name = "Div" ->
                        F32Div(F32Sub(F32Mul(id[1].data[k], iv[2].data[k]),
                                      F32Mul(iv[1].data[k], id[2].data[k])),
                               F32Mul(iv[2].data[k], iv[2].data[k]))], n)]

RECURSIVE DerivsFrom(_, _, _, _, _)
DerivsFrom(dtab, vtab, st, x, n) ==
    IF Len(dtab) >= n THEN dtab
    ELSE DerivsFrom(Append(dtab, DerivOf(dtab, vtab, st, x, Len(dtab) + 1)),
                    vtab, st, x, n)

Derivs(vtab, st, x, n) == DerivsFrom(<< >>, vtab, st, x, n)

\* dy/dx in the current graph.
Derivative(y, x) == Derivs(values, steps, x, y + 1)[y + 1]

\* The closed form of the derivative of "a name b" with respect to its
\* operand number p.
ClosedForm(name, p, a, b) ==
    CASE name = "Neg" -> F32(-1)
      [] name = "Add" -> F32(1)
      [] name = "Sub" -> IF p = 1 THEN F32(1) ELSE F32(-1)
      [] name = "Mul" -> IF p = 1 THEN b ELSE a
      [] name = "Div" -> IF p = 1 THEN F32Div(F32(1), b)
                         ELSE F32Neg(F32Div(a, F32Mul(b, b)))

\* y is one operator applied to leaves, different ones if it takes two.
OneOperatorOnLeaves(y) ==
    LET s == StepAt(steps, y)
    IN  /\ has_gradient_fn(s.operator)
        /\ \A p \in 1..Len(s.inputs) : IsLeaf(s.inputs[p])
        /\ Len(s.inputs) = 2 => s.inputs[1] # s.inputs[2]

\* C5: for y = one operator applied to leaves a (and b), every node grad
\* returned for a leaf evaluates, element by element, to the closed form:
\* neg -1; add (1, 1); sub (1, -1); mul (b, a); div (1/b, -a/b^2).
C5_ClosedFormDerivatives ==
    \A h \in 1..Len(history) :
        LET y == history[h].y
            s == StepAt(steps, y)
            a == Value(s.inputs[1])
            b == Value(s.inputs[Len(s.inputs)])
        IN  (history[h].ret # << >> /\ OneOperatorOnLeaves(y)) =>
              \A i \in 1..Len(history[h].x), p \in 1..Len(s.inputs) :
                  history[h].x[i] = s.inputs[p] =>
                      LET g == Value(history[h].ret[i])
                      IN  /\ g.ok
                          /\ g.shape = a.shape
                          /\ \A k \in 1..Len(g.data) :
                                F32Eq(g.data[k],
                                      ClosedForm(s.operator.name, p, a.data[k], b.data[k]))

\* grad of a / b with respect to (a, b) has returned for a = 2, b = 3.
C5_Witness ==
    /\ pc = "idle"
    /\ Len(history) = 1
    /\ OneOperatorOnLeaves(history[1].y)
    /\ StepAt(steps, history[1].y).operator.name = "Div"
    /\ history[1].x = StepAt(steps, history[1].y).inputs
    /\ Len(history[1].ret) = 2
    /\ Value(history[1].x[1]).data = <<F32(2)>>
    /\ Value(history[1].x[2]).data = <<F32(3)>>
    /\ Value(history[1].ret[2]).data = <<Norm(-1, 2, 9)>>

\* The number of times the step x is read as an input by y or an ancestor
\* of y.
Uses(y, x) ==
    Cardinality({ u \in AncestorsOrSelf(y) \X {1, 2} :
                    /\ u[2] <= Len(StepAt(steps, u[1]).inputs)
                    /\ StepAt(steps, u[1]).inputs[u[2]] = x })

\* C6: when x is y or an ancestor of y and the values on the way are finite,
\* the node grad(y, [.., x, ..]) returns for x evaluates to dy/dx, the sum
\* of the contributions of all the paths from x to y; for y = x * x it
\* evaluates to 2x.
C6_ContributionsAreSummed ==
    \A h \in 1..Len(history) : \A i \in 1..Len(history[h].ret) :
        LET y == history[h].y
            x == history[h].x[i]
            g == Value(history[h].ret[i])
            s == StepAt(steps, y)
        IN  /\ (x \in AncestorsOrSelf(y)
                   /\ \A a \in AncestorsOrSelf(y) : AllFinite(Value(a)))
                  => g.shape = Value(y).shape /\ SameNumbers(g, Derivative(y, x))
            /\ (s.operator.name = "Mul" /\ s.inputs = <<x, x>> /\ IsLeaf(x)) =>
                  /\ g.ok
                  /\ \A k \in 1..Len(g.data) :
                        F32Eq(g.data[k], F32Mul(F32(2), Value(x).data[k]))

\* grad(y, [x]) has returned for a y that reads x twice itself and once more
\* through another step: y = (x * x) * x with x = 3, the gradient is 27.
C6_Witness ==
    /\ pc = "idle"
    /\ Len(history) = 1
    /\ Len(history[1].ret) = 1
    /\ Uses(history[1].y, history[1].x[1]) = 3
    /\ IsLeaf(history[1].x[1])
    /\ Value(history[1].ret[1]).data = <<F32(27)>>

\* What a grad call must leave alone, from the state (st, sup, mem) to the
\* next: the steps that exist keep their status and cached Array, the
\* registries and the memory of the hardware are the same, and every
\* appended step is Unassigned.
GradFrame(st, sup, mem) ==
    /\ supplied' = sup
    /\ memory' = mem
    /\ Len(steps') >= Len(st)
    /\ \A i \in 1..Len(st) : steps'[i] = st[i]
    /\ \A i \in (Len(st) + 1)..Len(steps') : steps'[i].outputs = << >>

\* C8: no step of a grad call performs a forward or changes the hardware:
\* each step of the call, and the call as a whole (from the state it was
\* called in to the state it returns in), keeps the status and the cached
\* value of every existing step and the outstanding allocations, and
\* appends only Unassigned steps.
C8_GradEvaluatesAndAllocatesNothing ==
    [][/\ (pc = "grad" \/ ngrad' # ngrad) =>
              GradFrame(steps, supplied, memory) /\ performed' = performed
       /\ (pc = "grad" /\ pc' = "idle") =>
              GradFrame(before.steps, before.supplied, before.memory)]_vars

\* grad has returned on a graph that had an Assigned and an Unassigned step;
\* it appended steps.
C8_Witness ==
    /\ pc = "idle"
    /\ Len(history) = 1
    /\ history[1].ret # << >>
    /\ Len(steps) >= Len(before.steps) + 3
    /\ \E i \in 1..Len(before.steps) : before.steps[i].outputs # << >>
    /\ \E i \in 1..Len(before.steps) : before.steps[i].outputs = << >>
    /\ \A i \in 1..Len(before.steps) : steps[i] = before.steps[i]
    /\ before.supplied[1] # {}
    /\ supplied = before.supplied

\* The value with the shape and hardware of v and all elements zero.
Zeros(v) ==
    [v EXCEPT !.data = Numbers([k \in 1..num_elements(v.shape) |-> F32(0)],
                               num_elements(v.shape))]

\* C9: for an x that is neither y nor an ancestor of y, the node grad returns
\* for x evaluates to zeros with the shape of x on the hardware of x.
C9_UnrelatedGradientIsZero ==
    \A h \in 1..Len(history) : \A i \in 1..Len(history[h].ret) :
        LET y == history[h].y
            x == history[h].x[i]
        IN  x \notin AncestorsOrSelf(y) =>
                /\ Value(x).ok
                /\ Value(history[h].ret[i]) = Zeros(Value(x))

\* grad(y, [x]) has returned for an x created after y, with another shape
\* and on another hardware than y.
C9_Witness ==
    /\ pc = "idle"
    /\ Len(history) = 1
    /\ Len(history[1].ret) = 1
    /\ history[1].x[1] > history[1].y
    /\ Value(history[1].x[1]).shape = <<2>>
    /\ Value(history[1].y).shape = << >>
    /\ Value(history[1].x[1]).hardware # Value(history[1].y).hardware
    /\ Value(history[1].ret[1]).data = <<F32(0), F32(0)>>

\* C10: in every state, every input id of every step is smaller than the id
\* of the step.
C10_InputsPrecedeStep ==
    \A i \in 1..Len(steps) : \A k \in 1..Len(steps[i].inputs) :
        steps[i].inputs[k] < i - 1

\* Constructors, an overload, a grad that appended steps with inputs and a
\* calculate have all run.
C10_Witness ==
    /\ pc = "idle"
    /\ Len(history) = 1
    /\ Len(returned) >= 1
    /\ Len(steps) >= Len(before.steps) + 3
    /\ \E i \in (Len(before.steps) + 1)..Len(steps) : Len(steps[i].inputs) = 2
    /\ \E i \in 1..Len(before.steps) : Len(steps[i].inputs) = 2

(***************************************************************************)
(* Repeated differentiation: the program builds y = x * x * x (x = 5) or   *)
(* y = a * a * b (a = 2, b = 3), then applies grad to y and again to each  *)
(* returned node, every time with respect to one leaf of its choice, and   *)
(* evaluates a returned node.                                              *)
(***************************************************************************)
NoHardwareState == [supplied |-> [hw \in HW |-> {}], memory |-> << >>]

\* x = from_scalar(5); y = x * x * x
CubicProgram ==
    LET x == scalar_f32(NoHardwareState, 1, F32(5))
        s0 == add_step(<< >>, ConstantOp(x.array), << >>)
        s1 == add_step(s0.steps, PlainOp("Mul"), <<0, 0>>)
        s2 == add_step(s1.steps, PlainOp("Mul"), <<1, 0>>)
    IN  [hs |-> x.hs, steps |-> s2.steps]

\* a = from_scalar(2); b = from_scalar(3); y = a * a * b
MixedProgram ==
    LET a == scalar_f32(NoHardwareState, 1, F32(2))
        b == scalar_f32(a.hs, 1, F32(3))
        s0 == add_step(<< >>, ConstantOp(a.array), << >>)
        s1 == add_step(s0.steps, ConstantOp(b.array), << >>)
        s2 == add_step(s1.steps, PlainOp("Mul"), <<0, 0>>)
        s3 == add_step(s2.steps, PlainOp("Mul"), <<2, 1>>)
    IN  [hs |-> b.hs, steps |-> s3.steps]

InitHigher ==
    /\ \E prog \in {CubicProgram, MixedProgram} :
          /\ steps = prog.steps
          /\ supplied = prog.hs.supplied
          /\ memory = prog.hs.memory
          /\ values = Values(prog.steps, prog.hs.memory, Len(prog.steps))
          /\ nodes = 0..(Len(prog.steps) - 1)
          /\ nbuilt = Len(prog.steps)
    /\ pc = "idle"
    /\ target = 0
    /\ action_stack = << >>
    /\ result = << >>
    /\ error = ""
    /\ performed = << >>
    /\ grad_y = 0
    /\ grad_x = << >>
    /\ gradients = << >>
    /\ cur_step_id = 0
    /\ grad_ret = << >>
    /\ before = [steps |-> << >>, supplied |-> [hw \in HW |-> {}], memory |-> << >>]
    /\ history = << >>
    /\ returned = << >>
    /\ ncalc = 0
    /\ ngrad = 0
    /\ other_steps = << >>
    /\ arrays = {}
    /\ raw = {}
    /\ live = HW
    /\ dropped = << >>
    /\ nops = 0
    /\ ncross = 0
    /\ released = {}
    /\ shape_call = << >>
    /\ borrows = [c \in {0} \cup HW |-> 0]
    /\ script = << >>

\* The node the program differentiates next: y, then the last returned node.
LatestY == IF history = << >> THEN nbuilt - 1 ELSE history[Len(history)].ret[1]

\* The leaves the program made with from_scalar.
ScalarLeaves == {n \in 0..(nbuilt - 1) : StepAt(steps, n).operator.name = "Constant"}

GradHigher(n) ==
    \/ ngrad < n /\ \E x \in ScalarLeaves : grad_begin(LatestY, <<x>>)
    \/ grad_backward
    \/ grad_return

CalculateHigher(n) ==
    \/ ncalc < n /\ history # << >> /\ calculate_begin(LatestY)
    \/ calculate_fetch
    \/ calculate_perform
    \/ calculate_return
    \/ drop_result

NextHigher == GradHigher(MaxGradHigher) \/ CalculateHigher(MaxCalcHigher)

SpecHigher == InitHigher /\ [][NextHigher]_vars

RECURSIVE Falling(_, _)
Falling(e, c) == IF c = 0 THEN 1 ELSE IF e = 0 THEN 0 ELSE e * Falling(e - 1, c - 1)

RECURSIVE Power(_, _)
Power(v, e) == IF e = 0 THEN F32(1) ELSE F32Mul(v, Power(v, e - 1))

\* How many of the first k grad calls differentiated with respect to leaf.
TimesBy(leaf, k) == Cardinality({h \in 1..k : history[h].x = <<leaf>>})

\* The factor a leaf contributes to the partial derivative after k calls, y
\* being the product in which the leaf occurs Uses(y, leaf) times:
\* d^c/dv^c v^e = e (e - 1) .. (e - c + 1) v^(e - c).
Factor(leaf, k) ==
    LET e == Uses(nbuilt - 1, leaf)
        c == TimesBy(leaf, k)
    IN  IF leaf \notin ScalarLeaves THEN F32(1)
        ELSE IF c > e THEN F32(0)
        ELSE F32Mul(F32(Falling(e, c)), Power(Value(leaf).data[1], e - c))

\* The partial derivative of y the k-th call must return.
Partial(k) == F32Mul(Factor(0, k), Factor(1, k))

\* C7: the node the k-th successive grad call returns evaluates to the k-th
\* order partial derivative of y with respect to the chosen leaves, both as
\* the value of the expression and as the Array calculate returns; for
\* y = x * x * x, x = 5 these are 75, 30, 6, 0, and for y = a * a * b the
\* mixed partials y_ab and y_ba are both 2a.
C7_GradComposes ==
    /\ \A k \in 1..Len(history) :
          LET g == Value(history[k].ret[1])
          IN  /\ g.ok
              /\ g.shape = << >>
              /\ F32Eq(g.data[1], Partial(k))
              /\ Cardinality(ScalarLeaves) = 1 =>
                    F32Eq(g.data[1], <<F32(75), F32(30), F32(6), F32(0)>>[
                                        IF k > 4 THEN 4 ELSE k])
              /\ (k = 2 /\ history[1].x # history[2].x) =>
                    F32Eq(g.data[1], F32Mul(F32(2), Value(0).data[1]))
    /\ \A r \in 1..Len(returned), k \in 1..Len(history) :
          returned[r].target = history[k].ret[1] =>
              F32Eq(returned[r].data[1], Partial(k))
    /\ pc # "panic"

\* Four successive derivatives of x * x * x have been built, and calculate
\* has returned 30 for the second.
C7_Witness ==
    /\ pc = "idle"
    /\ Cardinality(ScalarLeaves) = 1
    /\ Len(history) = 4
    /\ \A k \in 1..3 : history[k + 1].y = history[k].ret[1]
    /\ Value(history[4].ret[1]).data = <<F32(0)>>
    /\ Len(returned) = 1
    /\ returned[1].target = history[2].ret[1]
    /\ returned[1].data = <<F32(30)>>

(***************************************************************************)
(* Properties of the step sequence.                                        *)
(***************************************************************************)
\* C11: no transition removes or reorders steps or changes the operator or
\* the inputs of a step that exists, and every construction that succeeds
\* appends exactly one step and hands out the node whose id is the number of
\* steps the graph had before.
C11_StepsAreAppendOnly ==
    [][/\ Len(steps') >= Len(steps)
       /\ \A i \in 1..Len(steps) :
             /\ steps'[i].operator = steps[i].operator
             /\ steps'[i].inputs = steps[i].inputs
       /\ (nbuilt' # nbuilt /\ pc' = "idle" /\ error' = "") =>
             /\ Len(steps') = Len(steps) + 1
             /\ nodes' = nodes \cup {Len(steps)}]_vars

\* Two constructions, an evaluation that cached the first step and a grad
\* that appended steps have all happened.
C11_Witness ==
    /\ pc = "idle"
    /\ nbuilt = 2
    /\ {0, 1} \subseteq nodes
    /\ steps[1].outputs # << >>
    /\ Len(history) = 1
    /\ Len(steps) > Len(before.steps)

(***************************************************************************)
(* Two Graphs.  A Node is [graph, step_id]; graph 1 is the Graph of the    *)
(* variable steps, graph 2 the one of other_steps.  Both use the same      *)
(* Hardware objects.                                                       *)
(***************************************************************************)
\* A check that was left out.
check_graph_skipped(self, others) == TRUE

\* Node::check_graph: Ok iff every other Node is on the Graph of self.
check_graph(self, others) == \A i \in 1..Len(others) : others[i].graph = self.graph

\* The check of grad: every x is on the Graph of y.
grad_check_graph(y, x) == \A i \in 1..Len(x) : x[i].graph = y.graph

\* The Nodes the program holds.
AllNodes ==
    {[graph |-> 1, step_id |-> n] : n \in nodes}
    \cup {[graph |-> 2, step_id |-> n] : n \in 0..(Len(other_steps) - 1)}

\* Node::from_scalar on the second Graph.
other_from_scalar(hw, value) ==
    /\ pc = "idle"
    /\ result = << >>
    /\ Len(other_steps) < MaxOther
    /\ LET a == scalar_f32(HS, hw, value)
           r == add_step(other_steps, ConstantOp(a.array), << >>)
       IN  /\ other_steps' = r.steps
           /\ supplied' = a.hs.supplied
           /\ memory' = a.hs.memory
           /\ error' = ""
           /\ pc' = IF r.ok THEN "idle" ELSE "panic"
    /\ UNCHANGED <<steps, values, nodes, nbuilt, calc_vars, grad_vars,
                   arrays, raw, live, dropped, nops, ncross,
                   released, shape_call, borrows, script>>

\* impl Add / Sub / Mul / Div for Node with at least one operand on the
\* second Graph: check_graph(..).unwrap(), then add_step on the Graph of
\* self, unwrapped as well.
node_binary(name, self, other) ==
    /\ pc = "idle"
    /\ result = << >>
    /\ self.graph = 2 \/ other.graph = 2
    /\ self.graph = other.graph => Len(other_steps) < MaxOther
    /\ self.graph # other.graph => ncross < MaxCross
    /\ ncross' = IF self.graph # other.graph THEN ncross + 1 ELSE ncross
    /\ IF ~check_graph(self, <<other>>)
       THEN /\ pc' = "panic"
            /\ error' = "InvalidGraph"
            /\ UNCHANGED <<steps, other_steps, values, nodes>>
       ELSE LET g == IF self.graph = 1 THEN steps ELSE other_steps
                r == add_step(g, PlainOp(name), <<self.step_id, other.step_id>>)
            IN  /\ pc' = IF r.ok THEN "idle" ELSE "panic"
                /\ error' = r.err
                /\ steps' = IF self.graph = 1 THEN r.steps ELSE steps
                /\ other_steps' = IF self.graph = 2 THEN r.steps ELSE other_steps
                /\ nodes' = IF self.graph = 1 /\ r.ok THEN nodes \cup {r.step_id}
                            ELSE nodes
                /\ values' = Recorded(steps', memory)
    /\ UNCHANGED <<supplied, memory, nbuilt, calc_vars, grad_vars,
                   arrays, raw, live, dropped, nops,
                   released, shape_call, borrows, script>>

\* grad(y, x) with a y of the first Graph and Nodes x of either Graph: when
\* an x is on another Graph than y, Err(InvalidNode) before anything else is
\* done.
node_grad(y, x) ==
    /\ pc = "idle"
    /\ result = << >>
    /\ y.graph = 1
    /\ ncross' = IF \E i \in 1..Len(x) : x[i].graph # y.graph THEN ncross + 1 ELSE ncross
    /\ IF ~grad_check_graph(y, x)
       THEN /\ ncross < MaxCross
            /\ error' = "InvalidNode"
            /\ UNCHANGED <<steps, supplied, memory, pc, values, grad_vars, nodes, nbuilt,
                           calc_vars, other_steps, arrays, raw, live, dropped, nops,
                           released, shape_call, borrows, script>>
       ELSE /\ ngrad < MaxGrad
            /\ grad_begin(y.step_id, [i \in 1..Len(x) |-> x[i].step_id])

\* The overloads the program applies to Nodes of the second Graph.
OtherNames == {"Add", "Div"}

BuildOther ==
    \/ \E a \in ScalarArgs : other_from_scalar(a[1], a[2])
    \/ \E name \in OtherNames, a \in AllNodes, b \in AllNodes : node_binary(name, a, b)

\* The lists of Nodes a grad call may pass.
NodeLists == UNION {[1..k -> AllNodes] : k \in 1..MaxXsMixed}

GradOther ==
    \/ \E y \in AllNodes, x \in NodeLists : node_grad(y, x)
    \/ grad_backward
    \/ grad_return

\* The constructions on the first Graph: scalars and binary overloads.
BuildFirst ==
    /\ nbuilt < MaxBuildMixed
    /\ \/ \E a \in ScalarArgs : from_scalar(a[1], a[2])
       \/ binary

\* Build two graphs, combine and differentiate their nodes.
NextTwo == BuildFirst \/ BuildOther \/ GradOther

SpecTwo == Init /\ [][NextTwo]_vars

\* C12: an operation on Nodes of two different Graphs is rejected, an
\* arithmetic overload by a panic with InvalidGraph and grad with the error
\* InvalidNode, and both Graphs then have the steps they had before.
C12_CrossGraphIsRejected ==
    [][ncross' # ncross =>
          /\ steps' = steps
          /\ other_steps' = other_steps
          /\ error' \in {"InvalidGraph", "InvalidNode"}
          /\ error' = "InvalidGraph" => pc' = "panic"]_vars

\* An overload has panicked on operands of two Graphs, after a grad across
\* the same Graphs had failed; both Graphs have steps.
C12_Witness ==
    /\ pc = "panic"
    /\ error = "InvalidGraph"
    /\ ncross = 2
    /\ Len(steps) = 2
    /\ Len(other_steps) = 2

(***************************************************************************)
(* Properties of ill-typed steps: a binary operator whose operands differ  *)
(* in shape or lie on different Hardware.                                  *)
(***************************************************************************)
\* The forward of the step with this id has failed: it is the last one that
\* was attempted, and it holds no output.
ForwardFailed(step_id) ==
    /\ error \in {"InvalidShape", "InvalidHardware"}
    /\ performed # << >>
    /\ performed[Len(performed)] = step_id

\* C13: when the forward of a step fails inside calculate, calculate hands
\* the error to its caller as a value (the program goes on), the steps
\* evaluated before stay cached and the failing step stays Unassigned.
C13_ForwardErrorIsReturned ==
    \A n \in 0..(Len(steps) - 1) :
        ForwardFailed(n) =>
            /\ pc = "idle"
            /\ result = << >>
            /\ ~is_calculated(steps, n)
            /\ \A k \in 1..(Len(performed) - 1) : is_calculated(steps, performed[k])

\* The forward of the step st[i] succeeds on the values its inputs denote.
WellTyped(i) == values[i].ok

\* C14: every step of the graph is one whose forward succeeds (an operator
\* on operands of unequal shapes or on different Hardware was rejected by
\* add_step), and no calculate meets a forward error.
C14_IllTypedStepIsRejected ==
    /\ \A i \in 1..Len(steps) : WellTyped(i)
    /\ error \notin {"InvalidShape", "InvalidHardware"}

\* C15: shape() and hardware() of every node are available from its
\* creation on, and they are the shape and the hardware of the Array that
\* calculate returns for the node.
C15_ShapeAndHardwareKnown ==
    /\ \A n \in nodes : StepAt(steps, n).placeholder.ok
    /\ \A r \in 1..Len(returned) :
          returned[r].shape = StepAt(steps, returned[r].target).placeholder.shape
    /\ (pc = "idle" /\ result # << >>) =>
          result[1].buffer.hardware = StepAt(steps, target).placeholder.hardware

(***************************************************************************)
(* Calls with invalid arguments.  Graph::calculate and Graph::add_step are *)
(* crate-internal: a caller inside the crate can pass any address.         *)
(***************************************************************************)
\* calculate on any address up to the first invalid one.
CalculateAny(n) ==
    \/ ncalc < n /\ \E t \in 0..Len(steps) : calculate_begin(t)
    \/ calculate_fetch
    \/ calculate_perform
    \/ calculate_return
    \/ drop_result

NextRaw == Build(MaxBuild) \/ CalculateAny(MaxCalc)

SpecRaw == Init /\ [][NextRaw]_vars

\* C16: a calculate whose target id is not below the number of steps returns
\* InvalidNode at once: it starts no evaluation, performs no forward, and
\* leaves the steps and the hardware as they were.
C16_InvalidTargetIsRejected ==
    /\ [][(ncalc' # ncalc /\ target' >= Len(steps)) =>
             /\ error' = "InvalidNode"
             /\ pc' = "idle"
             /\ action_stack' = << >>
             /\ result' = << >>
             /\ steps' = steps
             /\ performed' = performed
             /\ supplied' = supplied
             /\ memory' = memory]_vars
    /\ [](pc = "calc" => target < Len(steps))

\* The second calculate was called with the id one past the last step of a
\* graph of three steps, after the first had evaluated a step.
C16_Witness ==
    /\ pc = "idle"
    /\ error = "InvalidNode"
    /\ ncalc = 2
    /\ Len(steps) = 3
    /\ target = 3
    /\ performed # << >>

\* The operators the property hands to add_step: of arity 0, 1 and 2.
SomeOperators == {FillOp(1, << >>, F32(0)), PlainOp("Neg"), PlainOp("Add")}

\* C17: on every graph the program can build, add_step with a number of
\* inputs that is not the arity of the operator, or with an input id that is
\* not an existing step, returns an error and the steps it was given; and
\* every call of the program that returned such an error left the steps and
\* the nodes as they were.
C17_AddStepRejectsBadInputs ==
    /\ [](\A operator \in SomeOperators, inputs \in RawInputs :
             (\/ Len(inputs) # input_size(operator)
              \/ \E i \in 1..Len(inputs) : inputs[i] >= Len(steps)) =>
                 LET r == add_step(steps, operator, inputs)
                 IN  /\ ~r.ok
                     /\ r.err \in {"InvalidLength", "InvalidNode"}
                     /\ r.steps = steps)
    /\ [][(nbuilt' # nbuilt /\ error' \in {"InvalidLength", "InvalidNode"}) =>
             /\ steps' = steps
             /\ nodes' = nodes]_vars

\* The third construction was an add_step with the wrong number of inputs,
\* on a graph of two steps.
C17_Witness ==
    /\ pc = "idle"
    /\ error = "InvalidLength"
    /\ nbuilt = 3
    /\ ncalc = 0
    /\ Len(steps) = 2

\* C18: a grad call with an empty x returns the empty list and changes
\* nothing: no step is appended, the seed included.
C18_EmptyXAppendsNothing ==
    /\ [][(ngrad' # ngrad /\ grad_x' = << >>) =>
             /\ pc' = "idle"
             /\ error' = ""
             /\ grad_ret' = << >>
             /\ steps' = steps
             /\ supplied' = supplied
             /\ memory' = memory]_vars
    /\ [](\A h \in 1..Len(history) : history[h].x = << >> => history[h].ret = << >>)

\* grad(y, []) has returned for a y that is the result of an overload.
C18_Witness ==
    /\ pc = "idle"
    /\ Len(history) = 1
    /\ history[1].x = << >>
    /\ has_gradient_fn(StepAt(steps, history[1].y).operator)
    /\ Len(steps) = 3
    /\ steps = before.steps

(***************************************************************************)
(* The Array API and the raw memory interface of a Hardware in the hands   *)
(* of the user, and the end of the program: the Graphs are dropped, then   *)
(* the Arrays that are left, then each Hardware.  An Array borrows its     *)
(* Hardware, so a Hardware is dropped after every Array on it; memory      *)
(* taken with allocate_memory is not tied to a borrow.                     *)
(***************************************************************************)
\* What the Array and memory calls leave alone.
graph_vars == <<steps, values, nodes, nbuilt, calc_vars, grad_vars, other_steps, ncross,
                shape_call, borrows, script>>

\* The user keeps the Array a call returned.
keep_array(r) ==
    /\ arrays' = arrays \cup {r.array}
    /\ supplied' = r.hs.supplied
    /\ memory' = r.hs.memory
    /\ error' = ""
    /\ nops' = nops + 1
    /\ UNCHANGED <<pc, raw, live, dropped, released, graph_vars>>

\* A call that allocates nothing, or gives back what it allocated, and
\* returns the error err.
array_error(err) ==
    /\ error' = err
    /\ nops' = nops + 1
    /\ UNCHANGED <<arrays, supplied, memory, pc, raw, live, dropped, released, graph_vars>>

\* alloc::alloc of a layout of size zero is undefined: besides a usable
\* pointer the allocator may return null, and handle_alloc_error aborts.
alloc_abort ==
    /\ pc' = "abort"
    /\ error' = "AllocError"
    /\ nops' = nops + 1
    /\ UNCHANGED <<arrays, supplied, memory, raw, live, dropped, released, graph_vars>>

\* Array::scalar_f32
array_scalar(hw, value) == pc = "idle" /\ keep_array(scalar_f32(HS, hw, value))

\* Array::fill_f32
array_fill(hw, shape, value) ==
    /\ pc = "idle"
    /\ \/ keep_array(fill_f32(HS, hw, shape, value))
       \/ memory_size(shape) = 0 /\ alloc_abort

\* The value lists of the constant_f32 calls.
ValueLists == UNION {[1..k -> {F32(1)}] : k \in 0..3}

\* Array::constant_f32 with values of the wrong length: the Array is made,
\* set_vals_f32 fails, and the Array is dropped on the way out.
array_constant_invalid(hw, shape) ==
    /\ pc = "idle"
    /\ \E vals \in ValueLists :
          LET r == constant_f32(HS, hw, shape, vals)
          IN  /\ Len(vals) # num_elements(shape)
              /\ IF r.ok THEN keep_array(r)
                 ELSE r.hs = HS /\ array_error(r.err)

\* Array::clone
array_clone(a) ==
    /\ pc = "idle"
    /\ \/ keep_array(ArrayClone(HS, a))
       \/ memory_size(a.shape) = 0 /\ alloc_abort

\* Array::elementwise_neg_f32
array_neg(a) ==
    /\ pc = "idle"
    /\ \/ keep_array(elementwise_neg_f32(HS, a))
       \/ memory_size(a.shape) = 0 /\ alloc_abort

\* Array::elementwise_{add,sub,mul,div}_f32
array_binary(name, a, b) ==
    /\ pc = "idle"
    /\ LET r == elementwise_binary_f32(HS, name, a, b)
       IN  \/ IF r.ok THEN keep_array(r) ELSE array_error(r.err)
           \/ r.ok /\ memory_size(a.shape) = 0 /\ alloc_abort

\* The user drops an Array.
array_drop(a) ==
    /\ pc \in {"idle", "teardown"}
    /\ LET d == ArrayDrop(HS, a)
       IN  /\ pc' = IF d.ok THEN pc ELSE "panic"
           /\ error' = IF d.ok THEN "" ELSE "NotSupplied"
           /\ supplied' = d.hs.supplied
           /\ memory' = d.hs.memory
    /\ arrays' = arrays \ {a}
    /\ UNCHANGED <<raw, live, dropped, nops, released, graph_vars>>

\* Hardware::allocate_memory called by the user.
raw_allocate(hw, size) ==
    /\ pc = "idle"
    /\ \/ LET a == allocate_memory(HS, hw, size)
          IN  /\ raw' = raw \cup {<<hw, a.handle, size>>}
              /\ supplied' = a.hs.supplied
              /\ memory' = a.hs.memory
              /\ error' = ""
              /\ nops' = nops + 1
              /\ UNCHANGED <<arrays, pc, live, dropped, released, graph_vars>>
       \/ size = 0 /\ alloc_abort

\* Hardware::deallocate_memory called by the user on memory it took.
raw_deallocate(r) ==
    /\ pc \in {"idle", "teardown"}
    /\ r[1] \in live
    /\ LET d == deallocate_memory(HS, r[1], r[2], r[3])
       IN  /\ pc' = IF d.ok THEN pc ELSE "panic"
           /\ error' = IF d.ok THEN "" ELSE "NotSupplied"
           /\ supplied' = d.hs.supplied
           /\ memory' = d.hs.memory
    /\ raw' = raw \ {r}
    /\ released' = released \cup {<<r[1], r[2], r[3], 0>>}
    /\ UNCHANGED <<arrays, live, dropped, nops, graph_vars>>

\* Drop of the steps st[i..]: of each step the operator (a Constant owns an
\* Array) and then the outputs.
RECURSIVE StepsDrop(_, _, _)
StepsDrop(hs, st, i) ==
    IF i > Len(st) THEN [ok |-> TRUE, hs |-> hs]
    ELSE LET c == IF st[i].operator.array # << >>
                  THEN ArrayDrop(hs, st[i].operator.array[1])
                  ELSE [ok |-> TRUE, hs |-> hs]
             o == IF st[i].outputs # << >>
                  THEN ArrayDrop(c.hs, st[i].outputs[1])
                  ELSE [ok |-> TRUE, hs |-> c.hs]
         IN  IF c.ok /\ o.ok THEN StepsDrop(o.hs, st, i + 1)
             ELSE [ok |-> FALSE, hs |-> o.hs]

\* The Graphs go out of scope: no Node can be used from here on.
drop_graph ==
    /\ pc = "idle"
    /\ LET d1 == StepsDrop(HS, steps, 1)
           d2 == StepsDrop(d1.hs, other_steps, 1)
       IN  /\ pc' = IF d1.ok /\ d2.ok THEN "teardown" ELSE "panic"
           /\ error' = IF d1.ok /\ d2.ok THEN "" ELSE "NotSupplied"
           /\ supplied' = d2.hs.supplied
           /\ memory' = d2.hs.memory
    /\ steps' = << >>
    /\ other_steps' = << >>
    /\ values' = << >>
    /\ nodes' = {}
    /\ UNCHANGED <<nbuilt, calc_vars, grad_vars, arrays, raw, live, dropped, nops, ncross,
                   released, shape_call, borrows, script>>

\* The number of blocks of nonzero size the user took from hw and has not
\* given back.
Outstanding(hw) == Cardinality({r \in raw : r[1] = hw /\ r[3] > 0})

\* The number of blocks of size zero the user took from hw and has not
\* given back.
OutstandingZero(hw) == Cardinality({r \in raw : r[1] = hw /\ r[3] = 0})

\* The Arrays on hw that are alive: the user's, the result of a calculate,
\* those of the Constant operators and the cached outputs of the steps.
ArraysOn(hw) ==
    {a \in arrays : a.buffer.hardware = hw}
    \cup {result[i] : i \in {j \in DOMAIN result : result[j].buffer.hardware = hw}}
    \cup UNION {{st[i].operator.array[1] : i \in {j \in DOMAIN st :
                     /\ st[j].operator.array # << >>
                     /\ st[j].operator.array[1].buffer.hardware = hw}}
                : st \in {steps, other_steps}}
    \cup UNION {{st[i].outputs[1] : i \in {j \in DOMAIN st :
                     /\ st[j].outputs # << >>
                     /\ st[j].outputs[1].buffer.hardware = hw}}
                : st \in {steps, other_steps}}

\* A Hardware goes out of scope, after every Array on it.
drop_hardware(hw) ==
    /\ pc = "teardown"
    /\ hw \in live
    /\ \A a \in arrays : a.buffer.hardware # hw
    /\ result # << >> => result[1].buffer.hardware # hw
    /\ LET d == hardware_drop(HS, hw)
       IN  /\ dropped' = Append(dropped, [hw |-> hw, outstanding |-> Outstanding(hw),
                                          zero_sized |-> OutstandingZero(hw),
                                          panic |-> d.panic, num_leaked |-> d.num_leaked])
           /\ pc' = IF d.panic THEN "panic" ELSE pc
           /\ error' = IF d.panic THEN "MemoryLeak" ELSE ""
           /\ supplied' = d.hs.supplied
           /\ memory' = d.hs.memory
    /\ live' = live \ {hw}
    /\ raw' = {r \in raw : r[1] # hw}
    /\ UNCHANGED <<arrays, nops, released, graph_vars>>

FillShapes == {<<2>>, <<0>>}
RawSizes == {0, 4}

ArrayOps(n, hws) ==
    /\ nops < n
    /\ \/ \E hw \in hws : array_scalar(hw, F32(2))
       \/ \E shape \in FillShapes : array_fill(1, shape, F32(3))
       \/ array_constant_invalid(1, <<2>>)
       \/ \E a \in arrays : array_clone(a)
       \/ \E a \in arrays : array_neg(a)
       \/ \E a \in arrays, b \in arrays : array_binary("Add", a, b)

RawOps(n) ==
    \/ nops < n /\ \E hw \in HW, size \in RawSizes : raw_allocate(hw, size)
    \/ \E r \in raw : raw_deallocate(r)

Teardown ==
    \/ \E a \in arrays : array_drop(a)
    \/ drop_graph
    \/ \E hw \in HW : drop_hardware(hw)

\* The nodes of the graph that is evaluated and then dropped.
BuildMem ==
    /\ nbuilt < MaxBuildMem
    /\ \/ from_scalar(1, F32(2))
       \/ \E a \in nodes, b \in nodes : overload("Add", <<a, b>>)

\* Arrays, a graph and its evaluation, then everything is dropped.
NextMem == BuildMem \/ Calculate(MaxCalcMem) \/ ArrayOps(MaxOpsMem, {1}) \/ Teardown

SpecMem == Init /\ [][NextMem]_vars

\* Arrays and raw memory, then everything is dropped.
NextLeak == ArrayOps(MaxOps, HW) \/ RawOps(MaxOps) \/ Teardown

SpecLeak == Init /\ [][NextLeak]_vars

\* C19: whatever Arrays were made, cloned, combined (with or without
\* success), evaluated in a graph and dropped, a Hardware on which no Array
\* is left alive has an empty registry, its drop does not panic, no drop of
\* an Array found its memory missing, and no Hardware that was dropped
\* after its Arrays reported a leak.
C19_NoLeakAfterDrops ==
    /\ \A hw \in live :
          ArraysOn(hw) = {} =>
             /\ supplied[hw] = {}
             /\ ~hardware_drop(HS, hw).panic
    /\ error \notin {"NotSupplied", "MemoryLeak"}
    /\ \A i \in DOMAIN dropped : ~dropped[i].panic /\ dropped[i].num_leaked = 0

\* Two nodes were built and one evaluated, two Array calls were made, and
\* the graph, the Arrays and both Hardwares have been dropped.
C19_Witness ==
    /\ pc = "teardown"
    /\ nbuilt = MaxBuildMem
    /\ ncalc = MaxCalcMem
    /\ nops = MaxOpsMem
    /\ arrays = {}
    /\ result = << >>
    /\ Len(dropped) = 2

\* C20: the drop of a Hardware panics exactly when a block of nonzero size
\* taken from it has not been given back, the panic reports the number of
\* those blocks, and a block of size zero is never in the registry.
C20_DropPanicsIffLeak ==
    /\ \A i \in DOMAIN dropped :
          /\ dropped[i].panic <=> dropped[i].outstanding > 0
          /\ dropped[i].num_leaked = dropped[i].outstanding
    /\ \A hw \in HW : \A p \in supplied[hw] : p[2] > 0

\* A Hardware with an outstanding block of size zero was dropped quietly,
\* then one with two outstanding blocks of nonzero size panicked.
C20_Witness ==
    /\ Len(dropped) = 2
    /\ ~dropped[1].panic
    /\ dropped[1].zero_sized > 0
    /\ dropped[2].panic
    /\ dropped[2].num_leaked = 2

(***************************************************************************)
(* A second deallocation through a pointer the user kept.                  *)
(***************************************************************************)
\* Hardware::deallocate_memory called again with a handle and size the user
\* already gave back, and that no live Array owns now.  With a nonzero size
\* the registry is asked: the call panics when the pair is not there, and
\* goes through when the handle was handed out to the user again with that
\* size in between, which releases that newer block.  A size of zero is not
\* looked up, and alloc::dealloc of memory that is not allocated is
\* undefined: nothing is seen to happen, or the allocator aborts.
raw_deallocate_again(r) ==
    /\ pc \in {"idle", "teardown"}
    /\ r[1] \in live
    /\ r[4] = 0
    /\ \A a \in arrays : a.buffer.handle # r[2]
    /\ released' = (released \ {r}) \cup {<<r[1], r[2], r[3], 1>>}
    /\ IF r[3] = 0
       THEN /\ deallocate_memory(HS, r[1], r[2], r[3]).ok
            /\ \/ pc' = pc /\ error' = ""
               \/ pc' = "abort" /\ error' = "DoubleFree"
            /\ UNCHANGED <<supplied, memory, raw>>
       ELSE LET d == deallocate_memory(HS, r[1], r[2], r[3])
            IN  /\ pc' = IF d.ok THEN pc ELSE "panic"
                /\ error' = IF d.ok THEN "" ELSE "NotSupplied"
                /\ supplied' = d.hs.supplied
                /\ memory' = d.hs.memory
                /\ raw' = IF d.ok THEN raw \ {<<r[1], r[2], r[3]>>} ELSE raw
    /\ UNCHANGED <<arrays, live, dropped, nops, graph_vars>>

\* Arrays and raw memory, with second deallocations, then everything is
\* dropped.
SpecTwice ==
    Init /\ [][\/ ArrayOps(MaxOps, HW)
               \/ RawOps(MaxOps)
               \/ \E r \in released : raw_deallocate_again(r)
               \/ Teardown]_vars

\* The handles of the Arrays the user holds.
HeldHandles == {a.buffer.handle : a \in arrays}

\* The Buffer is in the registry of its Hardware, with its size, and in no
\* other registry.
Registered(buffer) ==
    /\ buffer.handle \in DOMAIN memory
    /\ buffer.size > 0 =>
          \A hw \in HW : <<buffer.handle, buffer.size>> \in supplied[hw]
                            <=> hw = buffer.hardware

\* The step is the drop of the Array a, and it gives the memory of a back
\* once: to the Hardware of a, with the size of a.
DropsOnce(a) ==
    /\ pc' # "panic"
    /\ a.buffer.handle \notin DOMAIN memory'
    /\ \A hw \in HW :
          supplied'[hw] = IF hw = a.buffer.hardware
                          THEN supplied[hw] \ {<<a.buffer.handle, a.buffer.size>>}
                          ELSE supplied[hw]

\* The step is a second deallocation through the kept pointer r.
SecondDeallocation(r) ==
    /\ r[4] = 0
    /\ r \notin released'
    /\ <<r[1], r[2], r[3], 1>> \in released'

\* C21: an Array call that succeeds returns an Array on a handle no live
\* Array has (clone included); every live Array is in the registry of its own
\* Hardware with its own size, no two Arrays share a handle, and the drop of
\* an Array gives exactly its memory back, once, without a panic; a second
\* deallocation of a handle of nonzero size that was not handed out again
\* panics.
C21_DeallocatedExactlyOnce ==
    /\ [](/\ \A a \in arrays : Registered(a.buffer)
          /\ Cardinality(HeldHandles) = Cardinality(arrays))
    /\ [][/\ \A a \in arrays' \ arrays : a.buffer.handle \notin DOMAIN memory
          /\ \A a \in arrays \ arrays' : DropsOnce(a)
          /\ \A r \in released :
                /\ SecondDeallocation(r)
                /\ r[3] > 0
                /\ <<r[2], r[3]>> \notin supplied[r[1]]
                => pc' = "panic" /\ error' = "NotSupplied" /\ supplied' = supplied]_vars

\* Every Array call was made and every Array dropped, memory of nonzero
\* size was taken and given back, and its second deallocation panicked with
\* all registries empty.
C21_Witness ==
    /\ pc = "panic"
    /\ error = "NotSupplied"
    /\ nops = MaxOps
    /\ arrays = {}
    /\ \E r \in released : r[4] = 1 /\ r[3] > 0
    /\ \A hw \in HW : supplied[hw] = {}

\* C21 as stated: every second deallocation of a handle panics.
C21_SecondDeallocationPanics ==
    [][\A r \in released : SecondDeallocation(r) => pc' = "panic"]_vars

\* Arrays on two Hardwares, then everything is dropped.
SpecArrays == Init /\ [][ArrayOps(MaxOpsArrays, HW) \/ Teardown]_vars

\* C22: a binary elementwise operation on Arrays of different Hardwares is
\* Err(InvalidHardware); on colocated Arrays of different shapes it is
\* Err(InvalidShape); otherwise it returns a new Array of the operands'
\* shape on the operands' Hardware, on a handle that was free; and a call
\* that returned one of the two errors has changed no registry, no memory
\* and no Array.
C22_BinaryChecksOperands ==
    /\ [](pc = "idle" =>
            \A name \in BinaryNames, a \in arrays, b \in arrays :
               LET r == elementwise_binary_f32(HS, name, a, b) IN
               IF a.buffer.hardware # b.buffer.hardware
               THEN ~r.ok /\ r.err = "InvalidHardware" /\ r.hs = HS
               ELSE IF a.shape # b.shape
               THEN ~r.ok /\ r.err = "InvalidShape" /\ r.hs = HS
               ELSE /\ r.ok
                    /\ r.array.shape = a.shape
                    /\ r.array.buffer.hardware = a.buffer.hardware
                    /\ r.array.buffer.handle \notin DOMAIN memory
                    /\ Len(get_values_f32(r.hs, r.array)) = num_elements(a.shape))
    /\ [][nops' # nops /\ error' \in {"InvalidHardware", "InvalidShape"} =>
             /\ supplied' = supplied
             /\ memory' = memory
             /\ arrays' = arrays
             /\ pc' = pc]_vars

\* The user holds Arrays on both Hardwares and of two shapes on one of
\* them, and the last call was a binary operation that failed.
C22_Witness ==
    /\ pc = "idle"
    /\ error \in {"InvalidHardware", "InvalidShape"}
    /\ \E a \in arrays, b \in arrays : a.buffer.hardware # b.buffer.hardware
    /\ \E a \in arrays, b \in arrays :
          a.buffer.hardware = b.buffer.hardware /\ a.shape # b.shape
    /\ nops = MaxOpsArrays

\* The shapes of the constant_f32 calls.
ConstantShapes == {ScalarShape, <<2>>, <<0>>}

\* C23: constant_f32 with values whose length is not the shape's
\* num_elements fails with InvalidLength, and leaves no Array, registry or
\* memory changed; with the right length it returns an Array of that shape
\* holding the values.
C23_ConstantLengthMismatch ==
    /\ [](\A hw \in live, shape \in ConstantShapes, vals \in ValueLists :
            LET r == constant_f32(HS, hw, shape, vals) IN
            IF Len(vals) # num_elements(shape)
            THEN ~r.ok /\ r.err = "InvalidLength" /\ r.hs = HS
            ELSE r.ok /\ r.array.shape = shape /\ get_values_f32(r.hs, r.array) = vals)
    /\ [][nops' # nops /\ error' = "InvalidLength" =>
             supplied' = supplied /\ memory' = memory /\ arrays' = arrays]_vars

\* The last call was a constant_f32 with values of the wrong length, made
\* while the user held an Array.
C23_Witness ==
    /\ pc = "idle"
    /\ error = "InvalidLength"
    /\ arrays # {}

\* C23 as stated: the error of the mismatch is of kind InvalidShape.
C23_MismatchIsInvalidShape ==
    /\ \A hw \in live, shape \in ConstantShapes, vals \in ValueLists :
          Len(vals) # num_elements(shape) =>
             constant_f32(HS, hw, shape, vals).err = "InvalidShape"
    /\ error # "InvalidLength"

(***************************************************************************)
(* Shape::new on machine words.                                            *)
(***************************************************************************)
\* The number of values of a usize, scaled down: a usize is 0..WordModulus-1.
WordModulus == 16

\* The loop of Shape::new from dims[i] on, with the running product size.
\* `size *= d` overflows when the product does not fit a usize: a build with
\* overflow checks panics there, a build without them wraps.
RECURSIVE ShapeLoop(_, _, _, _)
ShapeLoop(dimensions, i, size, overflow_checks) ==
    IF i > Len(dimensions)
    THEN [panic |-> FALSE, num_dimensions |-> Len(dimensions),
          dimensions |-> dimensions, num_elements |-> size]
    ELSE IF overflow_checks /\ size * dimensions[i] >= WordModulus
    THEN [panic |-> TRUE, num_dimensions |-> 0, dimensions |-> << >>, num_elements |-> 0]
    ELSE ShapeLoop(dimensions, i + 1, (size * dimensions[i]) % WordModulus,
                   overflow_checks)

\* Shape::new
ShapeNew(dimensions, overflow_checks) == ShapeLoop(dimensions, 1, 1, overflow_checks)

\* The dims vectors of the Shape::new calls.
DimsLists == UNION {[1..n -> 0..(WordModulus - 1)] : n \in 0..MaxDims}

\* A call of Shape::new in a build with or without overflow checks; Shape::new
\* has no state, so one call is followed per behaviour.
shape_new(dimensions, overflow_checks) ==
    /\ shape_call = << >>
    /\ shape_call' = <<[dims |-> dimensions, overflow_checks |-> overflow_checks,
                        shape |-> ShapeNew(dimensions, overflow_checks)]>>
    /\ UNCHANGED <<steps, supplied, memory, pc, error, values, nodes, nbuilt,
                   calc_vars, grad_vars, other_steps, arrays, raw, live, dropped,
                   nops, ncross, released, borrows, script>>

SpecShape ==
    Init /\ [][\E dimensions \in DimsLists, overflow_checks \in BOOLEAN :
                  shape_new(dimensions, overflow_checks)]_vars

\* C24: Shape::new returns, and num_elements is the product of the dims: 1
\* for the scalar shape and 0 whenever a dim is 0.
C24_NumElementsIsProduct ==
    \A i \in DOMAIN shape_call :
       LET c == shape_call[i] IN
       /\ ~c.shape.panic
       /\ c.shape.num_elements = Product(c.dims)
       /\ c.dims = << >> => c.shape.num_elements = 1
       /\ (\E k \in DOMAIN c.dims : c.dims[k] = 0) => c.shape.num_elements = 0

\* C25: while grad runs, the loop never comes back to a step id (the visited
\* id only decreases, so the gradient builder of a step is invoked at most
\* once), and the visit of step s changes only the slots of steps with a
\* smaller id than s: the slot of s and of every step visited before it is
\* final, and the table keeps its length.
C25_VisitedSlotIsFinal ==
    [][pc = "grad" =>
          /\ pc' = "grad" => cur_step_id' <= cur_step_id
          /\ gradients' # gradients => cur_step_id' < cur_step_id
          /\ Len(gradients') = Len(gradients)
          /\ \A i \in DOMAIN gradients :
                gradients'[i] # gradients[i] => i - 1 < cur_step_id]_vars

\* The loop has visited two steps or more, and a slot below the step that
\* is visited next holds a sum of two contributions (an Add step appended
\* by grad itself).
C25_Witness ==
    /\ pc = "grad"
    /\ cur_step_id + 2 <= grad_y
    /\ \E i \in 1..(cur_step_id + 1) :
          /\ gradients[i] # << >>
          /\ gradients[i][1] >= Len(before.steps)
          /\ StepAt(steps, gradients[i][1]).operator.name = "Add"

(***************************************************************************)
(* RefCell borrows.  The Graph and every Hardware live in a RefCell; a     *)
(* public operation is the sequence of borrow events it makes on them, in  *)
(* program order.  An event is <<kind, cell, site>>: cell 0 is the Graph,  *)
(* a cell in HW is that Hardware.  The user holds no borrow of its own.    *)
(***************************************************************************)
\* RefCell::borrow / borrow_mut and the drop of the Ref / RefMut, on a borrow
\* flag: 0 unused, n > 0 shared by n, -1 exclusive.
RefCellEvent(flag, kind) ==
    CASE kind = "borrow" -> [ok |-> flag >= 0, flag |-> flag + 1]
      [] kind = "borrow_mut" -> [ok |-> flag = 0, flag |-> -1]
      [] kind = "release" -> [ok |-> TRUE, flag |-> IF flag = -1 THEN 0 ELSE flag - 1]

\* cell.borrow() or cell.borrow_mut() at site, the events made while the
\* guard lives, and the drop of the guard.
Scoped(kind, cell, site, inner) ==
    <<<<kind, cell, site>>>> \o inner \o <<<<"release", cell, site>>>>

RECURSIVE Flatten(_)
Flatten(scripts) ==
    IF scripts = << >> THEN << >> ELSE Head(scripts) \o Flatten(Tail(scripts))

\* A new Array: hardware.borrow_mut().allocate_memory(..) in Buffer::raw,
\* then hardware.borrow_mut() for the kernel or the copy that fills it.
NewArray(hw) ==
    Scoped("borrow_mut", hw, "Buffer::raw", << >>)
    \o Scoped("borrow_mut", hw, "kernel", << >>)

\* The Array layer.  Every Hardware method is called as
\* hardware.borrow_mut().method(..) with handles as arguments.  An operation
\* makes a new Array; or makes one and drops it (constant_f32 with a wrong
\* length); or drops one; or reads or writes one; or, a binary operation
\* that fails, returns before any of it.
ArrayScripts ==
    UNION {{NewArray(hw),
            NewArray(hw) \o Scoped("borrow_mut", hw, "Buffer::drop", << >>),
            Scoped("borrow_mut", hw, "Buffer::drop", << >>),
            Scoped("borrow_mut", hw, "copy", << >>)} : hw \in HW}
    \cup {<< >>}

\* Node::from_scalar (the Array is made while the Graph is borrowed);
\* Node::fill and the overloads (graph.borrow_mut().add_step(..)); shape and
\* hardware (graph.borrow() for one expression); calculate and to_scalar:
\* the Graph is borrowed for the whole of Graph::calculate, every forward
\* makes an Array or fails, the value of the target is cloned at the end,
\* and to_scalar reads and drops the clone before the RefMut goes.
NodeScripts ==
    LET forwards == {Flatten([i \in DOMAIN f |->
                                 IF f[i] = 0 THEN << >> ELSE NewArray(f[i])]) :
                        f \in UNION {[1..k -> {0} \cup HW] : k \in 0..MaxPerforms}}
    IN  {Scoped("borrow_mut", 0, "from_scalar", NewArray(hw)) : hw \in HW}
        \cup {Scoped("borrow_mut", 0, "add_step", << >>),
              Scoped("borrow", 0, "shape", << >>)}
        \cup {Scoped("borrow_mut", 0, "calculate", fw \o NewArray(hw)) :
                 fw \in forwards, hw \in HW}
        \cup {Scoped("borrow_mut", 0, "to_scalar",
                     fw \o NewArray(hw)
                     \o Scoped("borrow_mut", hw, "copy", << >>)
                     \o Scoped("borrow_mut", hw, "Buffer::drop", << >>)) :
                 fw \in forwards, hw \in HW}

\* A visit that keeps the Graph borrowed while the gradient builder runs.
GradVisitHoldsBorrow(m) ==
    Scoped("borrow", 0, "grad_step",
           Flatten([i \in 1..m |-> Scoped("borrow_mut", 0, "gradient_fn", << >>)]))

\* One iteration of the loop of grad that reaches the gradient builder: the
\* inputs and the builder are read under g.borrow() in a block of their own,
\* then the builder and the integration make m overloads.
GradVisit(m) ==
    Scoped("borrow", 0, "grad_step", << >>)
    \o Flatten([i \in 1..m |-> Scoped("borrow_mut", 0, "gradient_fn", << >>)])

\* grad: num_steps, the seed (hardware, shape, fill), the visits, and the
\* zero Fill of every x without a gradient.
GradScripts ==
    LET query == Scoped("borrow", 0, "query", << >>) IN
    {query \o query \o query \o Scoped("borrow_mut", 0, "seed", << >>)
     \o Flatten([i \in DOMAIN v |-> GradVisit(v[i])])
     \o Flatten([i \in 1..z |-> query \o query \o Scoped("borrow_mut", 0, "zero", << >>)]) :
        v \in UNION {[1..k -> 0..MaxOverloads] : k \in 0..MaxVisits}, z \in 0..1}

\* The user calls a public operation.
begin_operation(s) ==
    /\ pc = "idle"
    /\ script = << >>
    /\ s # << >>
    /\ script' = s
    /\ UNCHANGED <<steps, supplied, memory, pc, error, values, nodes, nbuilt,
                   calc_vars, grad_vars, other_steps, arrays, raw, live, dropped,
                   nops, ncross, released, shape_call, borrows>>

\* The running operation makes its next borrow event; a borrow that the
\* flag does not allow panics (BorrowError, BorrowMutError).
borrow_event ==
    /\ pc = "idle"
    /\ script # << >>
    /\ LET e == Head(script)
           r == RefCellEvent(borrows[e[2]], e[1])
       IN  IF r.ok
           THEN /\ borrows' = [borrows EXCEPT ![e[2]] = r.flag]
                /\ script' = Tail(script)
                /\ UNCHANGED <<pc, error>>
           ELSE /\ pc' = "panic"
                /\ error' = IF e[1] = "borrow" THEN "BorrowError" ELSE "BorrowMutError"
                /\ UNCHANGED <<borrows, script>>
    /\ UNCHANGED <<steps, supplied, memory, values, nodes, nbuilt,
                   calc_vars, grad_vars, other_steps, arrays, raw, live, dropped,
                   nops, ncross, released, shape_call>>

SpecBorrow ==
    Init /\ [][\/ \E s \in ArrayScripts \cup NodeScripts \cup GradScripts :
                     begin_operation(s)
               \/ borrow_event]_vars

\* C26: no borrow event of a public operation finds the flag of its RefCell
\* against it: a borrow_mut is made on an unused cell, a borrow on a cell
\* that is not exclusively borrowed, no operation panics on a borrow, and an
\* operation that has ended holds no borrow.
C26_NoBorrowConflict ==
    /\ error \notin {"BorrowError", "BorrowMutError"}
    /\ script = << >> => \A c \in DOMAIN borrows : borrows[c] = 0
    /\ script # << >> =>
          /\ Head(script)[1] = "borrow_mut" => borrows[Head(script)[2]] = 0
          /\ Head(script)[1] = "borrow" => borrows[Head(script)[2]] >= 0

\* A gradient builder of grad holds the Graph exclusively for an overload,
\* with further visits of grad still to come.
C26_Witness ==
    /\ script # << >>
    /\ Head(script) = <<"release", 0, "gradient_fn">>
    /\ borrows[0] = -1
    /\ \E i \in DOMAIN script : script[i] = <<"borrow", 0, "grad_step">>

(***************************************************************************)
(* Termination of calculate.  Graph::calculate is one loop that runs to    *)
(* its end without yielding: once it has begun, its next pop, or its       *)
(* return, is taken.                                                       *)
(***************************************************************************)
SpecCalcFair ==
    /\ Init
    /\ [][Build(MaxBuildFair) \/ Calculate(MaxCalcFair)]_vars
    /\ WF_vars(calculate_fetch \/ calculate_perform \/ calculate_return)

\* What a stack entry can still cost: a Perform is one pop; a Fetch is its
\* own pop, the Perform it may push, and the Fetch of every input.
RECURSIVE FetchWeight(_, _)
FetchWeight(st, sid) ==
    LET inputs == StepAt(st, sid).inputs
        RECURSIVE Sum(_, _)
        Sum(i, acc) == IF i > Len(inputs) THEN acc
                       ELSE Sum(i + 1, acc + FetchWeight(st, inputs[i]))
    IN  Sum(1, 2)

StackWeight(st, stack) ==
    LET RECURSIVE Sum(_, _)
        Sum(i, acc) == IF i > Len(stack) THEN acc
                       ELSE Sum(i + 1, acc + IF stack[i][2] = "Perform" THEN 1
                                             ELSE FetchWeight(st, stack[i][1]))
    IN  Sum(1, 0)

\* C27: a calculate that has begun ends: every pop makes the action stack
\* strictly lighter in a measure that is a natural number, the steps of the
\* graph stay as they are meanwhile, and the loop is left with the stack
\* empty (or by the panic of a forward that failed).
C27_CalculateTerminates ==
    /\ (pc = "calc") ~> (pc # "calc")
    /\ [](pc = "idle" /\ returned # << >> => action_stack = << >>)
    /\ [][pc = "calc" /\ action_stack # << >> =>
             /\ Len(steps') = Len(steps)
             /\ StackWeight(steps', action_stack') < StackWeight(steps, action_stack)]_vars

\* The same step is on the action stack as a Fetch entry twice.
C27_Witness ==
    /\ pc = "calc"
    /\ \E i, j \in DOMAIN action_stack :
          /\ i < j
          /\ action_stack[i] = action_stack[j]
          /\ action_stack[i][2] = "Fetch"

\* C28: from its begin to its end a calculate appends no step and changes no
\* operator and no inputs; the only outputs it assigns are those of the
\* target and of its ancestors, and only where none was assigned before; a
\* step that is Assigned keeps its Array and the numbers in it; every entry
\* of the action stack is the target or an ancestor; and the Fetch of an
\* Assigned step is popped without pushing or performing anything.
C28_AssignsOnlyAncestors ==
    /\ [](pc = "calc" =>
             \A k \in DOMAIN action_stack : action_stack[k][1] \in AncestorsOrSelf(target))
    /\ [][pc = "calc" \/ pc' = "calc" =>
             /\ Len(steps') = Len(steps)
             /\ \A i \in 1..Len(steps) :
                   /\ steps'[i].operator = steps[i].operator
                   /\ steps'[i].inputs = steps[i].inputs
                   /\ steps'[i].outputs # steps[i].outputs =>
                         /\ (i - 1) \in AncestorsOrSelf(target)
                         /\ steps[i].outputs = << >>
                   /\ is_calculated(steps, i - 1) =>
                         Cached(steps', memory', i) = Cached(steps, memory, i)
             /\ (/\ pc = "calc"
                 /\ action_stack # << >>
                 /\ Top[2] = "Fetch"
                 /\ is_calculated(steps, Top[1])) =>
                   /\ action_stack' = Popped
                   /\ performed' = performed
                   /\ steps' = steps]_vars

\* Two calculate calls have returned; the target of the second depends on
\* the target of the first, which was Assigned already and was performed
\* once; a step that is no ancestor of the target has no value.
C28_Witness ==
    /\ pc = "idle"
    /\ Len(returned) = 2
    /\ returned[2].target = target
    /\ returned[1].target # target
    /\ returned[1].target \in AncestorsOrSelf(target)
    /\ Cardinality({k \in DOMAIN performed : performed[k] = returned[1].target}) = 1
    /\ \E i \in 1..Len(steps) :
          /\ (i - 1) \notin AncestorsOrSelf(target)
          /\ steps[i].outputs = << >>

(***************************************************************************)
(* The user owns the Array a calculate returned and may overwrite it.      *)
(***************************************************************************)
\* The lists the user writes: one number (set_scalar_f32, set_values_f32 of
\* a scalar) or two.
OverwriteLists == {<<F32(7)>>, <<F32(7), F32(7)>>}

\* result.set_values_f32(vals); set_scalar_f32 is the case of one number on
\* a scalar.  A list of the wrong length is Err(InvalidLength).
set_result(vals) ==
    /\ pc = "idle"
    /\ result # << >>
    /\ nops < MaxOverwrites
    /\ nops' = nops + 1
    /\ LET r == set_values_f32(HS, result[1], vals)
       IN  /\ error' = r.err
           /\ supplied' = r.hs.supplied
           /\ memory' = r.hs.memory
    /\ UNCHANGED <<steps, pc, values, nodes, nbuilt, calc_vars, grad_vars, other_steps,
                   arrays, raw, live, dropped, ncross, released, shape_call, borrows,
                   script>>

SpecCopy ==
    Init /\ [][\/ Build(MaxBuild)
               \/ Calculate(MaxCalc)
               \/ \E vals \in OverwriteLists : set_result(vals)]_vars

\* C29: the Array a calculate returned shares no buffer with a cached
\* value; when the user overwrites it or drops it, every Assigned step keeps
\* its Array holding the value of its expression; and every calculate call,
\* whatever the user did to earlier results, returned the value of the
\* expression of its target.
C29_ReturnedCopyIsIndependent ==
    /\ [](/\ result # << >> =>
               \A i \in 1..Len(steps) :
                  steps[i].outputs # << >> =>
                     steps[i].outputs[1].buffer.handle # result[1].buffer.handle
          /\ \A j \in DOMAIN returned :
                /\ returned[j].shape = Value(returned[j].target).shape
                /\ returned[j].data = Value(returned[j].target).data)
    /\ [][(/\ pc = "idle"
           /\ result # << >>
           /\ \/ result' = << >>
              \/ memory'[result[1].buffer.handle] # memory[result[1].buffer.handle]) =>
             /\ steps' = steps
             /\ \A i \in 1..Len(steps) :
                   steps[i].outputs # << >> =>
                      /\ Cached(steps', memory', i) = Cached(steps, memory, i)
                      /\ Cached(steps', memory', i).live
                      /\ Cached(steps', memory', i).data = Value(i - 1).data]_vars

\* The user has overwritten the Array of the first calculate and dropped
\* it; the second calculate, of a step that depends on the first target,
\* has returned the value of its expression, not overwritten.
C29_Witness ==
    /\ pc = "idle"
    /\ nops = 1
    /\ error = ""
    /\ Len(returned) = 2
    /\ result # << >>
    /\ returned[2].target = target
    /\ returned[1].target # target
    /\ returned[1].target \in AncestorsOrSelf(target)
    /\ ArrayValue(result[1]).data = Value(target).data
    /\ F32(7) \notin {Value(target).data[k] : k \in DOMAIN Value(target).data}

\* C30: while grad runs, its table has as many slots as the graph had steps
\* before the seed was appended, and keeps that length while the graph
\* grows; the id of y, the id of every x, every step id the loop visits and
\* every input id of a visited step are smaller than that length.
C30_TableIndicesInRange ==
    /\ [](pc = "grad" =>
             /\ Len(gradients) = Len(before.steps)
             /\ Len(steps) > Len(gradients)
             /\ grad_y < Len(gradients)
             /\ \A i \in DOMAIN grad_x : grad_x[i] < Len(gradients)
             /\ cur_step_id <= grad_y
             /\ \A s \in (MinStepId(grad_x) + 1)..cur_step_id :
                   \A k \in DOMAIN StepAt(steps, s).inputs :
                      StepAt(steps, s).inputs[k] < Len(gradients))
    /\ [][pc = "grad" /\ pc' = "grad" =>
             /\ Len(gradients') = Len(gradients)
             /\ Len(steps') >= Len(steps)]_vars

\* grad has visited a step and its gradient builder has appended steps
\* behind the seed; one x was made after y, and its slot is in the table.
C30_Witness ==
    /\ pc = "grad"
    /\ cur_step_id < grad_y
    /\ Len(steps) >= Len(gradients) + 2
    /\ \E i \in DOMAIN grad_x : grad_x[i] > grad_y

=============================================================================
